---------------------------- MODULE Spec2Model ----------------------------
(***************************************************************************)
(* A model of the UFO normalizer (src/normalization/ufonormalizer.py):     *)
(* the user-name-to-file-name mapping with its two collision fallbacks,    *)
(* the two-pass rename of glyph files and layer directories, and the       *)
(* glyph-record normalization pass.                                        *)
(*                                                                         *)
(* Text is a sequence of characters; a character is a one-character        *)
(* string, and a control character is written by its escape ("\\x00").     *)
(* Python integers are unbounded, so the collision counters are decimal    *)
(* digit strings, as str(counter) is.                                      *)
(***************************************************************************)
EXTENDS Integers, Sequences, FiniteSets, TLC

VARIABLES
    call,       \* name mapper: the pending call [fn, userName, existing, prefix, suffix]
    ret,        \* name mapper: what the call returned or raised
    kind,       \* rename: "glyphs" (normalizeGlyphNames) or "layers" (normalizeGlyphsDirectoryNames)
    host,       \* rename: os.name of the host, "posix" or "nt"
    contents,   \* rename: contents.plist / layercontents.plist, a sequence of <<userName, fileName>>
    contents0,  \* rename: the plist as it was when the call started
    fs,         \* rename: the directory, name -> entry
    fs0,        \* rename: the directory as it was when the call started
    pc,         \* rename: position in the routine
    newMapping, \* rename: newGlyphMapping / newLayerMapping, in enumeration order
    idx,        \* rename: index of the first pass's loop
    fromTemp,   \* rename: fromTempMapping, tempName -> newName
    temps,      \* rename: the temporary names used so far, in order
    lost,       \* rename: contents destroyed by an overwriting rename so far
    glif,       \* glyph pass: the text of the .glif file
    read,       \* glyph pass: the text each call so far read
    valid,      \* glyph pass: whether the file began as valid glyph data
    written,    \* glyph pass: the outcome of each call so far
    gpc,        \* glyph pass: "ready" while the file is there to normalize
    colorString, \* color: the string handed to _normalizeColorString
    colorResult, \* color: what the call returned, None included
    python,     \* package: the major version of the Python that runs the normalizer
    clock,      \* package: the time, in quarters of a second
    ufo,        \* package: the files of the UFO on disk
    passes,     \* package: the number of calls of normalizeUFO so far
    edits,      \* package: the number of changes made to the files by others
    lastRun,    \* package: what the last call of normalizeUFO did
    operand,    \* functions: the argument of the function under study
    returned,   \* functions: what the function returned
    xmlWriter,  \* writer: the XMLWriter
    asserted    \* writer: whether a call on the writer failed its assertion

nameVars == <<call, ret>>
renameVars == <<kind, host, contents, contents0, fs, fs0, pc, newMapping, idx, fromTemp,
                temps, lost>>
glifVars == <<glif, read, valid, written, gpc>>
colorVars == <<colorString, colorResult>>
ufoVars == <<python, clock, ufo, passes, edits, lastRun>>
pureVars == <<operand, returned>>
writerVars == <<xmlWriter, asserted>>
vars == <<call, ret, kind, host, contents, contents0, fs, fs0, pc, newMapping, idx,
          fromTemp, temps, lost, glif, read, valid, written, gpc, colorString,
          colorResult, python, clock, ufo, passes, edits, lastRun, operand, returned,
          xmlWriter, asserted>>

---------------------------------------------------------------------------
(* Text helpers: Python's str operations on sequences of characters.       *)

Rep(c, n) == [i \in 1..n |-> c]

upperChars == <<"A","B","C","D","E","F","G","H","I","J","K","L","M",
                "N","O","P","Q","R","S","T","U","V","W","X","Y","Z">>
lowerChars == <<"a","b","c","d","e","f","g","h","i","j","k","l","m",
                "n","o","p","q","r","s","t","u","v","w","x","y","z">>

lowerOf ==
    [c \in { upperChars[i] : i \in 1..26 } |->
        lowerChars[CHOOSE i \in 1..26 : upperChars[i] = c]]

\* character.lower()
LowerChar(c) == IF c \in DOMAIN lowerOf THEN lowerOf[c] ELSE c

\* str.lower()
Lower(s) == [i \in 1..Len(s) |-> LowerChar(s[i])]

\* s[:n], Python slice semantics: a negative n counts from the end
SliceTo(s, n) ==
    IF n >= 0
    THEN SubSeq(s, 1, IF n < Len(s) THEN n ELSE Len(s))
    ELSE SubSeq(s, 1, IF Len(s) + n > 0 THEN Len(s) + n ELSE 0)

RECURSIVE ConcatRange(_, _, _)
ConcatRange(ss, from, to) ==
    IF from > to THEN <<>>
    ELSE IF from = to THEN ss[from]
    ELSE LET mid == (from + to) \div 2
         IN ConcatRange(ss, from, mid) \o ConcatRange(ss, mid + 1, to)

\* "".join(list of strings)
Concat(ss) == ConcatRange(ss, 1, Len(ss))

\* str.split(sep) for a one-character separator
Split(s, sep) ==
    LET at == { i \in 1..Len(s) : s[i] = sep }
        n == Cardinality(at)
        \* the position of the k-th separator; 0 and Len(s) + 1 bound the text
        cut(k) == IF k = 0 THEN 0
                  ELSE IF k = n + 1 THEN Len(s) + 1
                  ELSE CHOOSE i \in at : Cardinality({ j \in at : j < i }) = k - 1
    IN [k \in 1..(n + 1) |-> SubSeq(s, cut(k - 1) + 1, cut(k) - 1)]

\* sep.join(parts)
Join(parts, sep) ==
    Concat([i \in 1..Len(parts) |-> IF i = 1 THEN parts[1] ELSE <<sep>> \o parts[i]])

StartsWith(s, p) == Len(s) >= Len(p) /\ SubSeq(s, 1, Len(p)) = p
EndsWith(s, p) == Len(s) >= Len(p) /\ SubSeq(s, Len(s) - Len(p) + 1, Len(s)) = p

---------------------------------------------------------------------------
(* Unbounded non-negative integers as decimal digit strings.               *)

digitChars == <<"0","1","2","3","4","5","6","7","8","9">>
IsDigit(c) == \E i \in 1..10 : digitChars[i] = c
DigitVal(c) == (CHOOSE i \in 1..10 : digitChars[i] = c) - 1
IsDigits(s) == \A i \in 1..Len(s) : IsDigit(s[i])

RECURSIVE StripZeros(_)
\* the digits of int(s) for a non-empty digit string s
StripZeros(s) ==
    IF Len(s) > 1 /\ Head(s) = "0" THEN StripZeros(Tail(s)) ELSE s

\* counter += 1
NumInc(d) ==
    LET notNine == { i \in 1..Len(d) : d[i] # "9" }
    IN IF notNine = {} THEN <<"1">> \o Rep("0", Len(d))
       ELSE LET p == CHOOSE i \in notNine : \A j \in notNine : j <= i
            IN [i \in 1..Len(d) |->
                    IF i < p THEN d[i]
                    ELSE IF i = p THEN digitChars[DigitVal(d[i]) + 2]
                    ELSE "0"]

\* a < b for digit strings of one length
DigitsLess(a, b) ==
    LET differ == { i \in 1..Len(a) : a[i] # b[i] }
    IN /\ differ # {}
       /\ LET p == CHOOSE i \in differ : \A j \in differ : i <= j
          IN DigitVal(a[p]) < DigitVal(b[p])

\* a < b for digit strings without leading zeros
NumLess(a, b) ==
    IF Len(a) # Len(b) THEN Len(a) < Len(b) ELSE DigitsLess(a, b)
NumGeq(a, b) == ~NumLess(a, b)
NumMax(a, b) == IF NumLess(a, b) THEN b ELSE a

\* str.zfill(width)
ZFill(d, width) == IF Len(d) >= width THEN d ELSE Rep("0", width - Len(d)) \o d

---------------------------------------------------------------------------
(* User name to file name.                                                 *)

controlCharacters ==
    {"\\x01","\\x02","\\x03","\\x04","\\x05","\\x06","\\x07","\\x08",
     "\t","\n","\\x0b","\f","\r","\\x0e","\\x0f","\\x10",
     "\\x11","\\x12","\\x13","\\x14","\\x15","\\x16","\\x17","\\x18",
     "\\x19","\\x1a","\\x1b","\\x1c","\\x1d","\\x1e","\\x1f"}

illegalCharacters ==
    {"\"", "*", "+", "/", ":", "<", ">", "?", "[", "\\", "]", "|", "\\x00"}
        \cup controlCharacters \cup {"\\x7f"}

reservedFileNames ==
    { <<"c","o","n">>, <<"p","r","n">>, <<"a","u","x">>,
      <<"c","l","o","c","k","$">>, <<"n","u","l">>,
      <<"a",":","-","z",":">>, <<"c","o","m","1">>,
      <<"l","p","t","1">>, <<"l","p","t","2">>, <<"l","p","t","3">>,
      <<"c","o","m","2">>, <<"c","o","m","3">>, <<"c","o","m","4">> }

maxFileNameLength == 255

\* the width given to zfill in handleClash1
clash1CounterWidth == 15

\* the literal 999999999999999 at which handleClash1's loop stops
clash1CounterStop ==
    <<"9","9","9","9","9","9","9","9","9","9","9","9","9","9","9">>

(* `existing` is any container answering `in`. It is kept here as a set of  *)
(* names plus runs of numbered names: the run [pre, suf, width, last]       *)
(* holds pre + str(k).zfill(width) + suf for every k in 1..last, so that a  *)
(* container filling a whole counter space can be written down.             *)
InRun(r, s) ==
    /\ Len(s) > Len(r.pre) + Len(r.suf)
    /\ StartsWith(s, r.pre)
    /\ EndsWith(s, r.suf)
    /\ LET mid == SubSeq(s, Len(r.pre) + 1, Len(s) - Len(r.suf))
           k == StripZeros(mid)
       IN /\ IsDigits(mid)
          /\ ZFill(k, r.width) = mid
          /\ k # <<"0">>
          /\ ~NumLess(r.last, k)

\* name in existing
Contains(existing, s) ==
    \/ s \in existing.names
    \/ \E r \in existing.runs : InRun(r, s)

\* The first counter >= c that the loop can test after the colliding one c:
\* c + 1, or, when runs of `existing` hold the names of c..last for the same
\* prefix, user name, width and suffix, last + 1 (every iteration in between
\* takes the same colliding branch).
AfterClash(existing, pre, suf, width, c) ==
    LET covering == { r \in existing.runs :
                        /\ r.pre = pre /\ r.suf = suf /\ r.width = width
                        /\ ~NumLess(r.last, c) }
        far == IF covering = {} THEN c
               ELSE (CHOOSE r \in covering :
                        \A q \in covering : ~NumLess(r.last, q.last)).last
    IN NumInc(far)

Returned(name, tier) == [outcome |-> "ok", name |-> name, tier |-> tier]
Raised(exception, tier) == [outcome |-> exception, name |-> <<>>, tier |-> tier]

RECURSIVE Clash2Loop(_, _, _, _, _)
Clash2Loop(existing, prefix, suffix, maxValue, counter) ==
    LET fullName == prefix \o counter \o suffix
    IN IF ~Contains(existing, Lower(fullName))
       THEN Returned(fullName, 2)
       ELSE LET next == AfterClash(existing, Lower(prefix), Lower(suffix), 0, counter)
            IN IF NumGeq(next, maxValue)
               \* NameTranslationError is defined nowhere: raising it is a NameError
               THEN Raised("NameError", 2)
               ELSE Clash2Loop(existing, prefix, suffix, maxValue, next)

handleClash2(existing, prefix, suffix) ==
    LET maxLength == maxFileNameLength - Len(prefix) - Len(suffix)
    IN IF maxLength <= 0
       \* int("") raises
       THEN Raised("ValueError", 2)
       ELSE Clash2Loop(existing, prefix, suffix, Rep("9", maxLength), <<"1">>)

RECURSIVE Clash1Loop(_, _, _, _, _)
Clash1Loop(userName, existing, prefix, suffix, counter) ==
    LET name == userName \o ZFill(counter, clash1CounterWidth)
        fullName == prefix \o name \o suffix
    IN IF ~Contains(existing, Lower(fullName))
       THEN Returned(fullName, 1)
       ELSE LET next == AfterClash(existing, Lower(prefix \o userName),
                                   Lower(suffix), clash1CounterWidth, counter)
            IN IF NumGeq(next, clash1CounterStop)
               THEN handleClash2(existing, prefix, suffix)
               ELSE Clash1Loop(userName, existing, prefix, suffix, next)

\* the user name handleClash1 puts the counter after
Clash1UserName(userName, prefix, suffix) ==
    LET l == Len(prefix) + Len(userName) + Len(suffix) + clash1CounterWidth
    IN IF l > maxFileNameLength
       THEN SliceTo(userName, maxFileNameLength - l)
       ELSE userName

handleClash1(userName, existing, prefix, suffix) ==
    Clash1Loop(Clash1UserName(userName, prefix, suffix), existing, prefix, suffix, <<"1">>)

\* the filter loop with the "_" after a non-lower character forgotten
FilterCharacter_NoMarker(character) ==
    IF character \in illegalCharacters THEN <<"_">> ELSE <<character>>

\* one character of the filter loop
FilterCharacter(character) ==
    IF character \in illegalCharacters THEN <<"_">>
    ELSE IF character # LowerChar(character) THEN <<character, "_">>
    ELSE <<character>>

FilterUserName(userName) ==
    Concat([i \in 1..Len(userName) |-> FilterCharacter(userName[i])])

\* one dot-separated part of the reserved-name test
ReservedPart(part) ==
    IF Lower(part) \in reservedFileNames THEN <<"_">> \o part ELSE part

\* the reserved-name test made on the whole name, not on each part of it
FileNameBody_WholeName(userName, prefix, suffix) ==
    LET dotted == IF prefix = <<>> /\ userName[1] = "."
                  THEN <<"_">> \o Tail(userName) ELSE userName
        sliceLength == maxFileNameLength - Len(prefix) - Len(suffix)
        clipped == SliceTo(FilterUserName(dotted), sliceLength)
    IN IF Lower(clipped) \in reservedFileNames THEN <<"_">> \o clipped ELSE clipped

\* the user name as it is when the clash test is reached
FileNameBody(userName, prefix, suffix) ==
    LET dotted == IF prefix = <<>> /\ userName[1] = "."
                  THEN <<"_">> \o Tail(userName) ELSE userName
        sliceLength == maxFileNameLength - Len(prefix) - Len(suffix)
        clipped == SliceTo(FilterUserName(dotted), sliceLength)
        parts == Split(clipped, ".")
    IN Join([i \in 1..Len(parts) |-> ReservedPart(parts[i])], ".")

userNameToFileName(userName, existing, prefix, suffix) ==
    IF prefix = <<>> /\ userName = <<>>
    \* userName[0] of an empty string
    THEN Raised("IndexError", 0)
    ELSE LET body == FileNameBody(userName, prefix, suffix)
             fullName == prefix \o body \o suffix
         IN IF Contains(existing, Lower(fullName))
            THEN handleClash1(body, existing, prefix, suffix)
            ELSE Returned(fullName, 0)

---------------------------------------------------------------------------
(* The calls of the name mapper that are explored.                         *)

MaxWordLen == 2
PadSlack == 1
MaxListed == 2

NameChars == {"a", "A", ".", "*"}

RECURSIVE WordsUpTo(_)
WordsUpTo(n) ==
    IF n = 0 THEN {<<>>}
    ELSE LET shorter == WordsUpTo(n - 1)
         IN shorter \cup { Append(w, c) : w \in shorter, c \in NameChars }

SpecialWords ==
    { <<"c","o","n">>, <<"C","O","N">>, <<"C","o","n">>, <<"n","u","l">>,
      <<"c","o","n",".","a">>, <<"a",".","c","o","n">>,
      <<"c","o","m","1">>, <<".","n","o","t","d","e","f">> }

PadLens ==
    { maxFileNameLength - k : k \in 0..PadSlack }
        \cup { maxFileNameLength - clash1CounterWidth - k : k \in 0..PadSlack }

LongNames ==
    { h \o Rep("a", n) \o t :
        h \in { <<>>, <<"c","o","n",".">> },
        n \in PadLens,
        t \in { <<>>, <<"A">>, <<".","c","o","n">> } }

UserNames == WordsUpTo(MaxWordLen) \cup SpecialWords \cup LongNames

glifSuffix == <<".","g","l","i","f">>
glyphsPrefix == <<"g","l","y","p","h","s",".">>

\* <<prefix, suffix>>: those of the callers, and prefixes that leave little room
Affixes == { <<<<>>, <<>>>>, <<<<>>, glifSuffix>>, <<glyphsPrefix, <<>>>> }
LongAffixes == { <<Rep("p", maxFileNameLength - k), <<>>>> : k \in 0..(PadSlack + 1) }

Small(k) == <<digitChars[k + 1]>>

\* n - 1 for a digit string of nines
NinesLess(nines, k) == SubSeq(nines, 1, Len(nines) - 1) \o Small(9 - k)

(* What `existing` holds, relative to the name the call would give: the     *)
(* plain name, some of the first tier-1 and tier-2 names, and runs that     *)
(* fill the tier-1 or tier-2 counter space up to `short` of its end.        *)
Fillings ==
    { [plain |-> TRUE, first1 |-> f1, run1 |-> "none", first2 |-> {}, run2 |-> "none"] :
        f1 \in SUBSET (1..MaxListed) }
    \cup { [plain |-> FALSE, first1 |-> {}, run1 |-> "none", first2 |-> f2, run2 |-> "none"] :
        f2 \in SUBSET (1..MaxListed) }
    \cup { [plain |-> TRUE, first1 |-> {}, run1 |-> r1, first2 |-> f2, run2 |-> r2] :
        r1 \in {"2", "1", "0"}, f2 \in {{}, {1}}, r2 \in {"none", "2", "1", "0"} }

ExistingFor(f, body, prefix, suffix) ==
    LET user1 == Clash1UserName(body, prefix, suffix)
        maxLength == maxFileNameLength - Len(prefix) - Len(suffix)
        short(r) == IF r = "2" THEN 2 ELSE IF r = "1" THEN 1 ELSE 0
    IN [names |->
            (IF f.plain THEN {Lower(prefix \o body \o suffix)} ELSE {})
            \cup { Lower(prefix \o user1 \o ZFill(Small(k), clash1CounterWidth) \o suffix) :
                      k \in f.first1 }
            \cup { Lower(prefix \o Small(k) \o suffix) : k \in f.first2 },
        runs |->
            (IF f.run1 = "none" THEN {}
             ELSE {[pre |-> Lower(prefix \o user1), suf |-> Lower(suffix),
                    width |-> clash1CounterWidth,
                    last |-> NinesLess(clash1CounterStop, short(f.run1))]})
            \cup (IF f.run2 = "none" \/ maxLength <= 0 THEN {}
                  ELSE {[pre |-> Lower(prefix), suf |-> Lower(suffix), width |-> 0,
                         last |-> NinesLess(Rep("9", maxLength), short(f.run2))]})]

Pending == [outcome |-> "pending", name |-> <<>>, tier |-> 0]

Calls ==
    { [fn |-> "userNameToFileName", userName |-> u, prefix |-> a[1], suffix |-> a[2],
       existing |-> ExistingFor(f,
                        IF a[1] = <<>> /\ u = <<>> THEN <<>>
                        ELSE FileNameBody(u, a[1], a[2]), a[1], a[2])] :
        u \in UserNames, a \in Affixes, f \in Fillings }
    \cup
    { [fn |-> "userNameToFileName", userName |-> u, prefix |-> a[1], suffix |-> a[2],
       existing |-> ExistingFor(f, FileNameBody(u, a[1], a[2]), a[1], a[2])] :
        u \in { <<"a">>, <<"A">> }, a \in LongAffixes, f \in Fillings }
    \cup
    { [fn |-> "handleClash1", userName |-> u, prefix |-> a[1], suffix |-> a[2],
       existing |-> ExistingFor(f, u, a[1], a[2])] :
        u \in SpecialWords \cup LongNames, a \in Affixes, f \in Fillings }
    \cup
    { [fn |-> "handleClash2", userName |-> <<>>, prefix |-> a[1], suffix |-> a[2],
       existing |-> ExistingFor(f, <<>>, a[1], a[2])] :
        a \in Affixes \cup LongAffixes, f \in Fillings }

NoCall == [fn |-> "none"]
RenameIdle ==
    /\ kind = "none" /\ host = "none" /\ contents = <<>> /\ contents0 = <<>>
    /\ fs = <<>> /\ fs0 = <<>> /\ pc = "idle"
    /\ newMapping = <<>> /\ idx = 0 /\ fromTemp = <<>> /\ temps = <<>> /\ lost = {}
NotCalled == <<"not called">>
ColorIdle == colorString = <<>> /\ colorResult = NotCalled
UfoIdle ==
    /\ python = 3 /\ clock = 0 /\ ufo = <<>>
    /\ passes = 0 /\ edits = 0 /\ lastRun = <<>>
PureIdle == operand = <<>> /\ returned = NotCalled
WriterIdle == xmlWriter = <<>> /\ asserted = FALSE
GlifIdle ==
    glif = <<>> /\ read = <<>> /\ valid = FALSE /\ written = <<>> /\ gpc = "idle"

NameInit ==
    /\ call \in Calls
    /\ ret = Pending
    /\ RenameIdle
    /\ GlifIdle
    /\ ColorIdle
    /\ UfoIdle
    /\ PureIdle
    /\ WriterIdle

CallUserNameToFileName ==
    /\ call.fn = "userNameToFileName" /\ ret = Pending
    /\ ret' = userNameToFileName(call.userName, call.existing, call.prefix, call.suffix)
    /\ UNCHANGED <<call, renameVars, glifVars, colorVars, ufoVars, pureVars, writerVars>>

CallHandleClash1 ==
    /\ call.fn = "handleClash1" /\ ret = Pending
    /\ ret' = handleClash1(call.userName, call.existing, call.prefix, call.suffix)
    /\ UNCHANGED <<call, renameVars, glifVars, colorVars, ufoVars, pureVars, writerVars>>

CallHandleClash2 ==
    /\ call.fn = "handleClash2" /\ ret = Pending
    /\ ret' = handleClash2(call.existing, call.prefix, call.suffix)
    /\ UNCHANGED <<call, renameVars, glifVars, colorVars, ufoVars, pureVars, writerVars>>

NameNext == CallUserNameToFileName \/ CallHandleClash1 \/ CallHandleClash2

NameSpec == NameInit /\ [][NameNext]_vars

---------------------------------------------------------------------------
(* The two-pass rename of normalizeGlyphNames (glyph files of one layer     *)
(* directory) and normalizeGlyphsDirectoryNames (layer directories of the   *)
(* package).  A directory is a function from entry names to entries; an     *)
(* entry is [id, inside], inside being the entries moved into a directory   *)
(* (a file's stays empty).  Names are compared exactly, as a case-sensitive *)
(* file system compares them.                                               *)

\* the characters of the explored names, in code point order
codePoints ==
    <<"*", ".", "/", "0", "1", "2", "3", "4", "5", "6", "7", "8", "9",
      "A", "B", "C", "D", "E", "F", "G", "H", "I", "J", "K", "L", "M",
      "N", "O", "P", "Q", "R", "S", "T", "U", "V", "W", "X", "Y", "Z", "_",
      "a", "b", "c", "d", "e", "f", "g", "h", "i", "j", "k", "l", "m",
      "n", "o", "p", "q", "r", "s", "t", "u", "v", "w", "x", "y", "z">>

Ord(c) == CHOOSE i \in 1..Len(codePoints) : codePoints[i] = c

\* s < t for str
TextLess(s, t) ==
    \E k \in 0..Len(s) :
        /\ k <= Len(t)
        /\ \A i \in 1..k : s[i] = t[i]
        /\ IF k = Len(s) THEN k < Len(t)
           ELSE k < Len(t) /\ Ord(s[k + 1]) < Ord(t[k + 1])

\* sorted(S) for a set of strings
Sorted(S) ==
    CHOOSE q \in [1..Cardinality(S) -> S] :
        \A i, j \in 1..Cardinality(S) : i < j => TextLess(q[i], q[j])

\* str(n) for n >= 0
RECURSIVE Decimal(_)
Decimal(n) ==
    LET digit == <<"0", "1", "2", "3", "4", "5", "6", "7", "8", "9">>[(n % 10) + 1]
    IN IF n < 10 THEN <<digit>> ELSE Append(Decimal(n \div 10), digit)

\* "org.unifiedfontobject.normalizer.%d" % index
tempName(index) ==
    <<"o","r","g",".","u","n","i","f","i","e","d","f","o","n","t","o","b","j","e","c","t",
      ".","n","o","r","m","a","l","i","z","e","r",".">> \o Decimal(index)

glyphsDirectory == <<"g","l","y","p","h","s">>

\* a dict or a directory without some keys, and with one key set
Without(f, keys) == [k \in DOMAIN f \ keys |-> f[k]]
Put(f, key, value) == [k \in DOMAIN f \cup {key} |-> IF k = key THEN value ELSE f[k]]

Moved(entries, gone) == [raised |-> "no", entries |-> entries, lost |-> gone]
NotMoved(entries, exception) == [raised |-> exception, entries |-> entries, lost |-> {}]

\* os.rename(inPath, outPath) on files of one directory: an existing outPath
\* is replaced on a POSIX host, and makes the call fail on Windows
subpathRenameFile(entries, fromSubpath, toSubpath) ==
    IF fromSubpath \notin DOMAIN entries THEN NotMoved(entries, "FileNotFoundError")
    ELSE IF fromSubpath = toSubpath THEN Moved(entries, {})
    ELSE IF toSubpath \in DOMAIN entries /\ host = "nt"
         THEN NotMoved(entries, "FileExistsError")
    ELSE Moved(Put(Without(entries, {fromSubpath}), toSubpath, entries[fromSubpath]),
               IF toSubpath \in DOMAIN entries THEN {entries[toSubpath].id} ELSE {})

\* shutil.move(inPath, outPath) on directories of one directory: when outPath
\* is an existing directory, inPath is moved into it under its own name
subpathRenameDirectory(entries, fromSubpath, toSubpath) ==
    IF fromSubpath \notin DOMAIN entries THEN NotMoved(entries, "FileNotFoundError")
    ELSE IF fromSubpath = toSubpath THEN Moved(entries, {})
    ELSE IF toSubpath \in DOMAIN entries
         THEN IF fromSubpath \in DOMAIN entries[toSubpath].inside
              THEN NotMoved(entries, "Error")
              ELSE Moved(Put(Without(entries, {fromSubpath}), toSubpath,
                             [entries[toSubpath] EXCEPT
                                 !.inside = Put(@, fromSubpath, entries[fromSubpath])]),
                         {})
    ELSE Moved(Put(Without(entries, {fromSubpath}), toSubpath, entries[fromSubpath]), {})

Rename(entries, fromSubpath, toSubpath) ==
    IF kind = "glyphs" THEN subpathRenameFile(entries, fromSubpath, toSubpath)
    ELSE subpathRenameDirectory(entries, fromSubpath, toSubpath)

\* oldGlyphMapping[glyphName] / oldLayerMapping[layerName]
oldMapping(plist, userName) ==
    plist[CHOOSE i \in 1..Len(plist) : plist[i][1] = userName][2]

\* the order the names are mapped in: sorted glyph names, layers as listed
MappingOrder ==
    IF kind = "glyphs" THEN Sorted({ contents[i][1] : i \in 1..Len(contents) })
    ELSE [i \in 1..Len(contents) |-> contents[i][1]]

\* the loop that maps each name against the names given so far
RECURSIVE AssignFrom(_, _, _, _)
AssignFrom(order, i, mapping, newFileNames) ==
    IF i > Len(order) THEN [raised |-> "no", mapping |-> mapping]
    ELSE LET userName == order[i]
             r == IF kind = "glyphs"
                  THEN userNameToFileName(userName, [names |-> newFileNames, runs |-> {}],
                                          <<>>, glifSuffix)
                  ELSE IF oldMapping(contents, userName) = glyphsDirectory
                  THEN Returned(glyphsDirectory, 0)
                  ELSE userNameToFileName(userName, [names |-> newFileNames, runs |-> {}],
                                          glyphsPrefix, <<>>)
         IN IF r.outcome # "ok" THEN [raised |-> r.outcome, mapping |-> mapping]
            ELSE AssignFrom(order, i + 1, Append(mapping, <<userName, r.name>>),
                            newFileNames \cup {r.name})

\* where the routine is once the entries before index i of the first loop are done
AfterPass1(i, mapping, pendingTemp) ==
    IF i < Len(mapping) THEN "pass1"
    ELSE IF DOMAIN pendingTemp # {} THEN "pass2"
    ELSE "write"

(* The explored directories.                                               *)

MaxEntries == 2
MaxUnrelated == 1

Text_a == <<"a">>
Text_x == <<"x">>
Text_A_ == <<"A", "_">>

RenameUserNames == { <<>>, Text_a, <<"A">>, <<"a", "_">>, <<"A", "*">>, Text_A_ }

\* names an entry of the directory can have: names the mapper gives, another
\* name, and names of the form of the temporary names
EntryNames(k) ==
    LET affixed(body) == IF k = "glyphs" THEN body \o glifSuffix ELSE glyphsPrefix \o body
    IN { affixed(Text_a), affixed(Text_A_), affixed(Text_x) }
           \cup { tempName(i) : i \in 0..(MaxEntries - 1) }
           \cup (IF k = "layers" THEN {glyphsDirectory} ELSE {})

\* the plists: distinct names, each with a file name of its own
RECURSIVE Plists(_, _)
Plists(k, n) ==
    IF n = 0 THEN {<<>>}
    ELSE LET shorter == Plists(k, n - 1)
         IN shorter \cup
            { Append(p, <<u, f>>) :
                p \in { q \in shorter : Len(q) = n - 1 },
                u \in RenameUserNames, f \in EntryNames(k) }

ValidPlist(p) ==
    \A i, j \in 1..Len(p) : i # j => p[i][1] # p[j][1] /\ p[i][2] # p[j][2]

NoEntries == [e \in {} |-> e]

RenameInit ==
    /\ call = NoCall /\ ret = Pending
    /\ GlifIdle
    /\ ColorIdle
    /\ UfoIdle
    /\ PureIdle
    /\ WriterIdle
    /\ kind \in {"glyphs", "layers"}
    /\ host \in {"posix", "nt"}
    /\ contents \in { p \in Plists(kind, MaxEntries) : ValidPlist(p) }
    /\ contents0 = contents
    /\ \E unrelated \in SUBSET (EntryNames(kind) \ { contents[i][2] : i \in 1..Len(contents) }) :
          /\ Cardinality(unrelated) <= MaxUnrelated
          /\ fs = [n \in { contents[i][2] : i \in 1..Len(contents) } \cup unrelated |->
                      [id |-> <<IF n \in unrelated THEN "unrelated" ELSE "listed", n>>,
                       inside |-> NoEntries]]
    /\ fs0 = fs
    /\ pc = "start"
    /\ newMapping = <<>> /\ idx = 0 /\ fromTemp = NoEntries /\ temps = <<>> /\ lost = {}

\* lines 385-391 / 231-248: read the plist and give every name its new file name
AssignNames ==
    /\ pc = "start"
    /\ LET assigned == AssignFrom(MappingOrder, 1, <<>>, {})
       IN IF kind = "layers" /\ contents = <<>>
          THEN pc' = "done" /\ UNCHANGED newMapping
          ELSE IF assigned.raised # "no"
          THEN pc' = "raised" /\ UNCHANGED newMapping
          ELSE /\ newMapping' = assigned.mapping
               /\ pc' = AfterPass1(0, assigned.mapping, fromTemp)
    /\ UNCHANGED <<kind, host, contents, contents0, fs, fs0, idx, fromTemp, temps, lost,
                   nameVars, glifVars, colorVars, ufoVars, pureVars, writerVars>>

\* first loop, an entry whose name stays
KeepName ==
    /\ pc = "pass1"
    /\ newMapping[idx + 1][2] = oldMapping(contents, newMapping[idx + 1][1])
    /\ idx' = idx + 1
    /\ pc' = AfterPass1(idx + 1, newMapping, fromTemp)
    /\ UNCHANGED <<kind, host, contents, contents0, fs, fs0, newMapping, fromTemp, temps, lost,
                   nameVars, glifVars, colorVars, ufoVars, pureVars, writerVars>>

\* first loop, an entry to rename: old name -> temporary name
RenameToTemp ==
    /\ pc = "pass1"
    /\ LET userName == newMapping[idx + 1][1]
           newFileName == newMapping[idx + 1][2]
           oldFileName == oldMapping(contents, userName)
           tempFileName == tempName(idx)
           moved == Rename(fs, oldFileName, tempFileName)
       IN /\ newFileName # oldFileName
          /\ temps' = Append(temps, tempFileName)
          /\ IF moved.raised # "no"
             THEN pc' = "raised" /\ UNCHANGED <<fs, lost, fromTemp, idx>>
             ELSE /\ fs' = moved.entries
                  /\ lost' = lost \cup moved.lost
                  /\ fromTemp' = Put(fromTemp, tempFileName, newFileName)
                  /\ idx' = idx + 1
                  /\ pc' = AfterPass1(idx + 1, newMapping,
                                      Put(fromTemp, tempFileName, newFileName))
    /\ UNCHANGED <<kind, host, contents, contents0, fs0, newMapping, nameVars, glifVars, colorVars, ufoVars, pureVars, writerVars>>

\* second loop: temporary name -> new name, in the order the dict gives
RenameFromTemp ==
    /\ pc = "pass2"
    /\ \E tempFileName \in DOMAIN fromTemp :
          LET moved == Rename(fs, tempFileName, fromTemp[tempFileName])
          IN IF moved.raised # "no"
             THEN pc' = "raised" /\ UNCHANGED <<fs, lost, fromTemp>>
             ELSE /\ fs' = moved.entries
                  /\ lost' = lost \cup moved.lost
                  /\ fromTemp' = Without(fromTemp, {tempFileName})
                  /\ pc' = IF DOMAIN fromTemp = {tempFileName} THEN "write" ELSE "pass2"
    /\ UNCHANGED <<kind, host, contents, contents0, fs0, newMapping, idx, temps,
                   nameVars, glifVars, colorVars, ufoVars, pureVars, writerVars>>

\* what stands in lost for the contents.plist of the layer directory
ContentsPlist == <<"plist", <<"c","o","n","t","e","n","t","s",".","p","l","i","s","t">>>>

\* write contents.plist / layercontents.plist; _normalizePlistFile then
\* removes a contents.plist that holds an empty dict
WriteContents ==
    /\ pc = "write"
    /\ contents' = newMapping
    /\ lost' = IF kind = "glyphs" /\ newMapping = <<>> THEN lost \cup {ContentsPlist} ELSE lost
    /\ pc' = "done"
    /\ UNCHANGED <<kind, host, contents0, fs, fs0, newMapping, idx, fromTemp, temps,
                   nameVars, glifVars, colorVars, ufoVars, pureVars, writerVars>>

RenameNext == AssignNames \/ KeepName \/ RenameToTemp \/ RenameFromTemp \/ WriteContents

RenameSpec == RenameInit /\ [][RenameNext]_vars

---------------------------------------------------------------------------
(* The glyph pass: normalizeGLIF on one .glif file.  The text of a file is  *)
(* the sequence of its lines; a line is [level, kind, tag, attrs, value]:   *)
(* its indentation, whether it begins, ends or is a whole element, the tag, *)
(* the attributes as written (name and escaped value, in order) and the     *)
(* text between the tags.  The glyph records explored hold unicode,         *)
(* advance and lib elements, the lib a dict of strings.                     *)

None == <<"None">>

XmlLine(level, lineKind, tag, attrs, value) ==
    [level |-> level, kind |-> lineKind, tag |-> tag, attrs |-> attrs, value |-> value]

xmlDeclaration == XmlLine(0, "declaration", "xml", <<>>, None)

xmlAttributeOrder ==
    << <<"n","a","m","e">>, <<"b","a","s","e">>, <<"f","o","r","m","a","t">>, <<"f","i","l","e","N","a","m","e">>, <<"x">>, <<"y">>, <<"a","n","g","l","e">>,
       <<"x","S","c","a","l","e">>, <<"x","y","S","c","a","l","e">>, <<"y","x","S","c","a","l","e">>, <<"y","S","c","a","l","e">>, <<"x","O","f","f","s","e","t">>, <<"y","O","f","f","s","e","t">>,
       <<"t","y","p","e">>, <<"s","m","o","o","t","h">>, <<"c","o","l","o","r">>, <<"i","d","e","n","t","i","f","i","e","r">> >>

\* xmlAttributeOrder.get(attr, 100)
AttributeIndex(attr) ==
    IF \E i \in 1..Len(xmlAttributeOrder) : xmlAttributeOrder[i] = attr
    THEN (CHOOSE i \in 1..Len(xmlAttributeOrder) : xmlAttributeOrder[i] = attr) - 1
    ELSE 100

\* text.replace(c, entity) for the three characters, "&" first
xmlEscapeText(text) ==
    Concat([i \in 1..Len(text) |->
        IF text[i] = "&" THEN <<"&","a","m","p",";">>
        ELSE IF text[i] = "<" THEN <<"&","l","t",";">>
        ELSE IF text[i] = ">" THEN <<"&","g","t",";">>
        ELSE <<text[i]>>])

xmlEscapeAttribute(text) ==
    LET escaped == xmlEscapeText(text)
    IN Concat([i \in 1..Len(escaped) |->
        IF escaped[i] = "\"" THEN <<"&","q","u","o","t",";">> ELSE <<escaped[i]>>])

(* float(text) for the texts made of digits, "." and a sign, "nan" and      *)
(* "inf" in any case, with white space around: a float is [neg, int, frac], *)
(* the digits before and after the point, int without leading and frac     *)
(* without trailing zeros; nan and the infinities hold their name as int.   *)
(* Any other text is not a number (the explored texts have no exponent).    *)
RECURSIVE StripTrailingZeros(_)
StripTrailingZeros(s) ==
    IF s # <<>> /\ s[Len(s)] = "0" THEN StripTrailingZeros(SubSeq(s, 1, Len(s) - 1)) ELSE s

whitespace == {" ", "\t", "\n", "\r"}

\* str.strip()
strip(text) ==
    LET inked == { i \in 1..Len(text) : text[i] \notin whitespace }
    IN IF inked = {} THEN <<>>
       ELSE SubSeq(text, CHOOSE i \in inked : \A j \in inked : i <= j,
                         CHOOSE i \in inked : \A j \in inked : j <= i)

nan == <<"n","a","n">>
inf == <<"i","n","f">>

\* the text of a number without its sign, in lower case
Unsigned(stripped) ==
    Lower(IF stripped # <<>> /\ stripped[1] \in {"-", "+"} THEN Tail(stripped) ELSE stripped)

\* the text of a number without its white space and sign, in lower case
FloatBody(text) == Unsigned(strip(text))

IsFloatBody(body) ==
    LET dots == { i \in 1..Len(body) : body[i] = "." }
    IN \/ body \in {nan, inf, <<"i","n","f","i","n","i","t","y">>}
       \/ /\ Cardinality(dots) <= 1
          /\ \A i \in 1..Len(body) : i \in dots \/ IsDigit(body[i])
          /\ Len(body) > Cardinality(dots)

\* whether float(text) succeeds
IsFloatText(text) == IsFloatBody(FloatBody(text))

\* the value of the digits before and after the point
FloatOfParts(neg, parts) ==
    [neg |-> neg,
     int |-> IF parts[1] = <<>> THEN <<"0">> ELSE StripZeros(parts[1]),
     frac |-> IF Len(parts) > 1 THEN StripTrailingZeros(parts[2]) ELSE <<>>]

FloatOfBody(neg, body) ==
    IF body = nan THEN [neg |-> FALSE, int |-> nan, frac |-> <<>>]
    ELSE IF body \in {inf, <<"i","n","f","i","n","i","t","y">>} THEN [neg |-> neg, int |-> inf, frac |-> <<>>]
    ELSE FloatOfParts(neg, Split(body, "."))

FloatOfStripped(stripped) == FloatOfBody(stripped[1] = "-", Unsigned(stripped))

\* float(text) for a text that IsFloatText: sign, integer digits, fraction digits
float(text) == FloatOfStripped(strip(text))

FloatIsZero(f) == f.int = <<"0">> /\ f.frac = <<>>
FloatNegative(f) == f.neg /\ ~FloatIsZero(f)
FloatAboveOne(f) ==
    f.int # nan /\ (NumLess(<<"1">>, f.int) \/ (f.int = <<"1">> /\ f.frac # <<>>))

\* a == b for floats: the zeros are equal, nan equals nothing
FloatEq(a, b) ==
    /\ a.int # nan /\ b.int # nan
    /\ \/ a = b
       \/ FloatIsZero(a) /\ FloatIsZero(b)

xmlConvertInt(value) == value

floatPlaces == 10

\* a "%.10f" that cuts the places after the tenth
RoundedDigits_Truncating(value) ==
    value.int \o SubSeq(value.frac \o Rep("0", floatPlaces), 1, floatPlaces)

\* the digits of "%.10f" % value without the point: the integer digits and
\* ten places, rounded on the eleventh
RoundedDigits(value) ==
    LET kept == value.int \o SubSeq(value.frac \o Rep("0", floatPlaces), 1, floatPlaces)
    IN IF Len(value.frac) > floatPlaces /\ DigitVal(value.frac[floatPlaces + 1]) >= 5
       THEN NumInc(kept) ELSE kept

\* rstrip("0") on the places, and the integer when nothing follows the point
FormatFloat(sign, whole, frac) ==
    IF frac = <<>>
    THEN xmlConvertInt(IF whole = <<"0">> THEN whole ELSE sign \o whole)
    ELSE sign \o whole \o <<".">> \o frac

FormatDigits(sign, digits) ==
    FormatFloat(sign, SubSeq(digits, 1, Len(digits) - floatPlaces),
                StripTrailingZeros(SubSeq(digits, Len(digits) - floatPlaces + 1,
                                          Len(digits))))

\* "%.10f" % value, rstrip("0"), and the integer when nothing follows the point
\* (the explored values are none halfway between two roundings)
xmlConvertFloat(value) ==
    IF value.int \in {nan, inf} THEN (IF value.neg THEN <<"-">> ELSE <<>>) \o value.int
    ELSE FormatDigits(IF value.neg THEN <<"-">> ELSE <<>>, RoundedDigits(value))

\* a value handed to the writer: a float, an int or a string
FloatValue(f) == [type |-> "float", float |-> f, text |-> <<>>]
IntValue(digits) == [type |-> "int", float |-> <<>>, text |-> digits]
StrValue(text) == [type |-> "str", float |-> <<>>, text |-> text]

xmlConvertValue(value) ==
    IF value.type = "float" THEN xmlConvertFloat(value.float)
    ELSE IF value.type = "int" THEN xmlConvertInt(value.text)
    ELSE xmlEscapeText(value.text)

\* XMLWriter.attributesToString: the pairs name="value" in the preferred order
\* the key of sorted(attrs.items(), key=...): the fixed index, then the name
AttributeLess(a, b) ==
    \/ AttributeIndex(a) < AttributeIndex(b)
    \/ AttributeIndex(a) = AttributeIndex(b) /\ TextLess(a, b)

RECURSIVE SortedAttributes(_)
SortedAttributes(names) ==
    IF names = {} THEN <<>>
    ELSE LET first == CHOOSE a \in names : \A b \in names \ {a} : AttributeLess(a, b)
         IN <<first>> \o SortedAttributes(names \ {first})

attributesToString(attrs) ==
    LET order == SortedAttributes(DOMAIN attrs)
    IN [i \in 1..Len(order) |->
           <<xmlEscapeAttribute(order[i]), xmlConvertValue(attrs[order[i]])>>]

NoAttrs == [a \in {} |-> a]

\* XMLWriter
NewWriter == [lines |-> <<xmlDeclaration>>, indentLevel |-> 0, stack |-> <<>>]

raw(writer, lineKind, tag, attrs, value) ==
    [writer EXCEPT
        !.lines = Append(@, XmlLine(writer.indentLevel, lineKind, tag, attrs, value))]

simpleElement(writer, tag, attrs, value) ==
    raw(writer, "simple", tag, attributesToString(attrs), value)

beginElement(writer, tag, attrs) ==
    [raw(writer, "begin", tag, attributesToString(attrs), None) EXCEPT
        !.stack = Append(@, tag), !.indentLevel = @ + 1]

\* endElement without "self._indentLevel -= 1"
endElement_KeepsIndent(writer, tag) ==
    raw([writer EXCEPT !.stack = SubSeq(@, 1, Len(@) - 1)], "end", tag, <<>>, None)

endElement(writer, tag) ==
    raw([writer EXCEPT !.stack = SubSeq(@, 1, Len(@) - 1), !.indentLevel = @ - 1],
        "end", tag, <<>>, None)

getText(writer) == writer.lines

(* ET.fromstring on such lines.                                            *)

entities == << <<<<"&","a","m","p",";">>, "&">>, <<<<"&","l","t",";">>, "<">>, <<<<"&","g","t",";">>, ">">>, <<<<"&","q","u","o","t",";">>, "\"">> >>

EntityAt(text, i) ==
    { k \in 1..Len(entities) : StartsWith(SubSeq(text, i, Len(text)), entities[k][1]) }

\* a text is well formed when it has no "<" and every "&" begins an entity
WellFormedText(text) ==
    \A i \in 1..Len(text) :
        /\ text[i] # "<"
        /\ text[i] = "&" => EntityAt(text, i) # {}

RECURSIVE XmlUnescape(_)
XmlUnescape(text) ==
    IF text = <<>> THEN <<>>
    ELSE IF text[1] = "&"
    THEN LET e == entities[CHOOSE k \in EntityAt(text, 1) : TRUE]
         IN <<e[2]>> \o XmlUnescape(SubSeq(text, Len(e[1]) + 1, Len(text)))
    ELSE <<text[1]>> \o XmlUnescape(Tail(text))

\* an attribute value as written is well formed when it also has no quote
WellFormedAttribute(text) ==
    WellFormedText(text) /\ \A i \in 1..Len(text) : text[i] # "\""

WellFormed(lines) ==
    \A i \in 1..Len(lines) :
        /\ lines[i].value # None => WellFormedText(lines[i].value)
        /\ \A k \in 1..Len(lines[i].attrs) : WellFormedAttribute(lines[i].attrs[k][2])

\* the element a line opens: an empty text is None
ElementOf(line, children) ==
    [tag |-> line.tag,
     attrib |-> [name \in { line.attrs[k][1] : k \in 1..Len(line.attrs) } |->
                    XmlUnescape(line.attrs[CHOOSE k \in 1..Len(line.attrs) :
                                              line.attrs[k][1] = name][2])],
     text |-> IF line.value = None \/ line.value = <<>> THEN None
              ELSE XmlUnescape(line.value),
     children |-> children]

\* the text of an element that spans lines: the line breaks, the indentation
\* and the lines of text that come before its first child
SpannedText(inner, closing) ==
    LET children == { i \in 1..Len(inner) : inner[i].kind # "text" }
        first == IF children = {} THEN Len(inner) + 1
                 ELSE CHOOSE i \in children : \A j \in children : i <= j
        after == IF first <= Len(inner) THEN inner[first].level ELSE closing.level
    IN Concat([i \in 1..(first - 1) |->
                  <<"\n">> \o Rep("\t", inner[i].level) \o XmlUnescape(inner[i].value)])
           \o <<"\n">> \o Rep("\t", after)

RECURSIVE ParseElements(_)
ParseElements(lines) ==
    IF lines = <<>> THEN <<>>
    ELSE IF lines[1].kind = "text" THEN ParseElements(Tail(lines))
    ELSE IF lines[1].kind = "simple"
    THEN <<ElementOf(lines[1], <<>>)>> \o ParseElements(Tail(lines))
    ELSE LET close == CHOOSE i \in 2..Len(lines) :
                         /\ lines[i].kind = "end" /\ lines[i].level = lines[1].level
                         /\ \A j \in 2..(i - 1) :
                               ~(lines[j].kind = "end" /\ lines[j].level = lines[1].level)
             inner == SubSeq(lines, 2, close - 1)
         IN <<[ElementOf(lines[1], ParseElements(inner)) EXCEPT
                  !.text = SpannedText(inner, lines[close])]>>
                \o ParseElements(SubSeq(lines, close + 1, Len(lines)))

fromstring(text) == ParseElements(Tail(text))[1]

\* element.attrib.get(name, default)
AttribGet(element, name, default) ==
    IF name \in DOMAIN element.attrib THEN element.attrib[name] ELSE default

(* The element normalizers.                                                *)

hexChars == <<"a","b","c","d","e","f">>

IsHexText(v) ==
    \A i \in 1..Len(v) :
        \/ IsDigit(v[i])
        \/ \E k \in 1..6 : v[i] = hexChars[k] \/ v[i] = upperChars[k]

\* "%04X" % int(v, 16)
HexText(v) ==
    LET upper == [i \in 1..Len(v) |->
                    IF \E k \in 1..6 : v[i] = hexChars[k]
                    THEN upperChars[CHOOSE k \in 1..6 : v[i] = hexChars[k]] ELSE v[i]]
    IN ZFill(StripZeros(upper), 4)

normalizeGlifUnicode(element, writer) ==
    LET v == AttribGet(element, <<"h","e","x">>, None)
    IN IF v = None \/ v = <<>> THEN writer
       ELSE IF ~IsHexText(v) THEN writer
       ELSE simpleElement(writer, "unicode", Put(NoAttrs, <<"h","e","x">>, StrValue(HexText(v))), None)

\* the advance with each value parsed in a try of its own, a value that does
\* not parse counting as 0
normalizeGlifAdvance_EachValue(element, writer) ==
    LET w == AttribGet(element, <<"w","i","d","t","h">>, <<"0">>)
        h == AttribGet(element, <<"h","e","i","g","h","t">>, <<"0">>)
        withWidth == IF ~IsFloatText(w) THEN NoAttrs
                     ELSE IF FloatIsZero(float(w)) THEN NoAttrs
                     ELSE Put(NoAttrs, <<"w","i","d","t","h">>, FloatValue(float(w)))
        attrs == IF ~IsFloatText(h) THEN withWidth
                 ELSE IF FloatIsZero(float(h)) THEN withWidth
                 ELSE Put(withWidth, <<"h","e","i","g","h","t">>, FloatValue(float(h)))
    IN IF DOMAIN attrs = {} THEN writer
       ELSE simpleElement(writer, "advance", attrs, None)

normalizeGlifAdvance(element, writer) ==
    LET w == AttribGet(element, <<"w","i","d","t","h">>, <<"0">>)
        h == AttribGet(element, <<"h","e","i","g","h","t">>, <<"0">>)
    IN IF ~IsFloatText(w) \/ ~IsFloatText(h) THEN writer
       ELSE LET withWidth == IF FloatIsZero(float(w)) THEN NoAttrs
                             ELSE Put(NoAttrs, <<"w","i","d","t","h">>, FloatValue(float(w)))
                attrs == IF FloatIsZero(float(h)) THEN withWidth
                         ELSE Put(withWidth, <<"h","e","i","g","h","t">>, FloatValue(float(h)))
            IN IF DOMAIN attrs = {} THEN writer
               ELSE simpleElement(writer, "advance", attrs, None)

normalizeColorString(value) ==
    LET parts == Split(value, ",")
    IN IF Len(parts) # 4 THEN None
       ELSE IF \E i \in 1..4 : ~IsFloatText(parts[i]) THEN None
       ELSE IF \E i \in 1..4 : FloatNegative(float(parts[i])) \/ FloatAboveOne(float(parts[i]))
       THEN None
       ELSE Join([i \in 1..4 |-> xmlConvertFloat(float(parts[i]))], ",")

\* _glifDefaultTransformation, the defaults as float() reads them
glifDefaultTransformation ==
    << <<<<"x","S","c","a","l","e">>, <<"1">>>>, <<<<"x","y","S","c","a","l","e">>, <<"0">>>>, <<<<"y","x","S","c","a","l","e">>, <<"0">>>>,
       <<<<"y","S","c","a","l","e">>, <<"1">>>>, <<<<"x","O","f","f","s","e","t">>, <<"0">>>>, <<<<"y","O","f","f","s","e","t">>, <<"0">>>> >>

\* _normalizeGlifTransformation: the values that parse and differ from their default
normalizeGlifTransformation(element) ==
    LET table == glifDefaultTransformation
        value(i) == AttribGet(element, table[i][1], table[i][2])
        kept == { i \in 1..Len(table) :
                    IsFloatText(value(i)) /\ ~FloatEq(float(value(i)), float(table[i][2])) }
    IN [attr \in { table[i][1] : i \in kept } |->
           FloatValue(float(element.attrib[attr]))]

\* a value that Python takes for false: None or the empty string
Falsy(value) == value = None \/ value = <<>>

\* xmlConvertValue(None) in _normalizeGlifImage: the color did not normalize
GlifImageRaises(element) ==
    LET fileName == AttribGet(element, <<"f","i","l","e","N","a","m","e">>, None)
        color == AttribGet(element, <<"c","o","l","o","r">>, None)
    IN ~Falsy(fileName) /\ color # None /\ normalizeColorString(color) = None

\* "if condition: attrs[key] = value"
PutIf(condition, attrs, key, value) == IF condition THEN Put(attrs, key, value) ELSE attrs

normalizeGlifImage(element, writer) ==
    LET fileName == AttribGet(element, <<"f","i","l","e","N","a","m","e">>, None)
        color == AttribGet(element, <<"c","o","l","o","r">>, None)
    IN IF Falsy(fileName) THEN writer
       ELSE simpleElement(writer, "image",
                PutIf(color # None,
                      Put(normalizeGlifTransformation(element), <<"f","i","l","e","N","a","m","e">>,
                          StrValue(fileName)),
                      <<"c","o","l","o","r">>, StrValue(normalizeColorString(color))),
                None)

\* xmlConvertValue(None) in _normalizeGlifAnchor
GlifAnchorRaises(element) ==
    LET x == AttribGet(element, <<"x">>, None)
        y == AttribGet(element, <<"y">>, None)
        color == AttribGet(element, <<"c","o","l","o","r">>, None)
    IN /\ ~Falsy(x) /\ ~Falsy(y) /\ IsFloatText(x) /\ IsFloatText(y)
       /\ color # None /\ normalizeColorString(color) = None

normalizeGlifAnchor(element, writer) ==
    LET x == AttribGet(element, <<"x">>, None)
        y == AttribGet(element, <<"y">>, None)
        name == AttribGet(element, <<"n","a","m","e">>, None)
        color == AttribGet(element, <<"c","o","l","o","r">>, None)
        identifier == AttribGet(element, <<"i","d","e","n","t","i","f","i","e","r">>, None)
    IN IF Falsy(x) \/ Falsy(y) THEN writer
       ELSE IF ~IsFloatText(x) \/ ~IsFloatText(y) THEN writer
       ELSE simpleElement(writer, "anchor",
                PutIf(identifier # None,
                    PutIf(color # None,
                        PutIf(name # None,
                            Put(Put(NoAttrs, <<"x">>, FloatValue(float(x))),
                                <<"y">>, FloatValue(float(y))),
                            <<"n","a","m","e">>, StrValue(name)),
                        <<"c","o","l","o","r">>, StrValue(normalizeColorString(color))),
                    <<"i","d","e","n","t","i","f","i","e","r">>, StrValue(identifier)),
                None)

\* a coordinate or an angle of a guideline as the dict keeps it: the float, or
\* the empty text that "if x:" left alone
GuidelineNumber(value) == IF Falsy(value) THEN StrValue(value) ELSE FloatValue(float(value))

\* "if color is not None: color = _normalizeColorString(color); if color:"
GuidelineColor(color) == IF color = None THEN None ELSE normalizeColorString(color)

\* _normalizeDictGuideline on the attributes of a glif guideline, each a text
\* or None: <<>> for None, <<normalized>> for the dict
normalizeDictGuideline(guideline) ==
    LET x == guideline[<<"x">>]
        y == guideline[<<"y">>]
        angle == guideline[<<"a","n","g","l","e">>]
        name == guideline[<<"n","a","m","e">>]
        color == GuidelineColor(guideline[<<"c","o","l","o","r">>])
        identifier == guideline[<<"i","d","e","n","t","i","f","i","e","r">>]
    IN IF Falsy(x) /\ Falsy(y) THEN <<>>
       ELSE IF (Falsy(x) \/ Falsy(y)) /\ ~Falsy(angle) THEN <<>>
       ELSE IF (~Falsy(x) /\ ~Falsy(y)) /\ Falsy(angle) THEN <<>>
       ELSE IF \E v \in {x, y, angle} : ~Falsy(v) /\ ~IsFloatText(v) THEN <<>>
       ELSE << PutIf(identifier # None,
                   PutIf(~Falsy(color),
                       PutIf(name # None,
                           PutIf(angle # None,
                               PutIf(y # None,
                                   PutIf(x # None, NoAttrs, <<"x">>, GuidelineNumber(x)),
                                   <<"y">>, GuidelineNumber(y)),
                               <<"a","n","g","l","e">>, GuidelineNumber(angle)),
                           <<"n","a","m","e">>, StrValue(name)),
                       <<"c","o","l","o","r">>, StrValue(color)),
                   <<"i","d","e","n","t","i","f","i","e","r">>, StrValue(identifier)) >>

normalizeGlifGuideline(element, writer) ==
    LET attrs == {<<"x">>, <<"y">>, <<"a","n","g","l","e">>, <<"c","o","l","o","r">>, <<"n","a","m","e">>, <<"i","d","e","n","t","i","f","i","e","r">>}
        normalized == normalizeDictGuideline([attr \in attrs |-> AttribGet(element, attr, None)])
    IN IF normalized # <<>> THEN simpleElement(writer, "guideline", normalized[1], None)
       ELSE writer

xmlTextMaxLineLength == 70

\* str.splitlines() for a text whose line boundaries are "\n"
splitlines(s) ==
    LET parts == Split(s, "\n")
    IN IF parts[Len(parts)] = <<>> THEN SubSeq(parts, 1, Len(parts) - 1) ELSE parts

\* str.rstrip()
rstrip(s) ==
    LET inked == { i \in 1..Len(s) : s[i] \notin whitespace }
    IN IF inked = {} THEN <<>>
       ELSE SubSeq(s, 1, CHOOSE i \in inked : \A j \in inked : j <= i)

\* textwrap's chunks: the runs of white space and the words between them
RECURSIVE Chunks(_)
Chunks(s) ==
    IF s = <<>> THEN <<>>
    ELSE LET space == s[1] \in whitespace
             other == { i \in 1..Len(s) : (s[i] \in whitespace) # space }
             stop == IF other = {} THEN Len(s) + 1
                     ELSE CHOOSE i \in other : \A j \in other : i <= j
         IN <<SubSeq(s, 1, stop - 1)>> \o Chunks(SubSeq(s, stop, Len(s)))

\* textwrap.wrap as XMLWriter.text calls it: a line takes the chunks that fit,
\* no white space is dropped, no word is broken
RECURSIVE WrapChunks(_, _)
WrapChunks(chunks, line) ==
    IF chunks = <<>> THEN (IF line = <<>> THEN <<>> ELSE <<line>>)
    ELSE IF Len(line) + Len(chunks[1]) <= xmlTextMaxLineLength
    THEN WrapChunks(Tail(chunks), line \o chunks[1])
    ELSE IF line = <<>> THEN <<chunks[1]>> \o WrapChunks(Tail(chunks), <<>>)
    ELSE <<line>> \o WrapChunks(chunks, <<>>)

wrap(paragraph) == WrapChunks(Chunks(paragraph), <<>>)

\* XMLWriter.text
writerText(writer, value) ==
    LET escaped == xmlEscapeText(strip(value))
        source == splitlines(escaped)
        paragraphs == Concat([i \in 1..Len(source) |->
                         IF source[i] = <<>> THEN << <<>> >> ELSE wrap(rstrip(source[i]))])
    IN [writer EXCEPT !.lines = @ \o [i \in 1..Len(paragraphs) |->
            XmlLine(writer.indentLevel, "text", "", <<>>, paragraphs[i])]]

normalizeGlifNote(element, writer) ==
    LET value == element.text
    IN IF Falsy(value) THEN writer
       ELSE IF strip(value) = <<>> THEN writer
       ELSE endElement(writerText(beginElement(writer, "note", NoAttrs), value), "note")

(* The outline.  An optional dict is <<>> for None and <<dict>> for a dict; *)
(* an entry of the outline is [type, points, attrs].                        *)

pointTypes == {<<"m","o","v","e">>, <<"l","i","n","e">>, <<"c","u","r","v","e">>, <<"q","c","u","r","v","e">>, <<"o","f","f","c","u","r","v","e">>}

\* "not attrs": None or the empty dict
NoDict(attrs) == Len(attrs) = 0 \/ DOMAIN attrs[1] = {}

normalizeGlifPointAttributesFormat1(element) ==
    LET x == AttribGet(element, <<"x">>, None)
        y == AttribGet(element, <<"y">>, None)
        typ == AttribGet(element, <<"t","y","p","e">>, <<"o","f","f","c","u","r","v","e">>)
        smooth == AttribGet(element, <<"s","m","o","o","t","h">>, None)
        name == AttribGet(element, <<"n","a","m","e">>, None)
    IN IF Falsy(x) \/ Falsy(y) THEN <<NoAttrs>>
       ELSE IF ~IsFloatText(x) \/ ~IsFloatText(y) THEN <<>>
       ELSE IF typ \notin pointTypes THEN <<NoAttrs>>
       ELSE << PutIf(name # None,
                   PutIf(typ # <<"o","f","f","c","u","r","v","e">> /\ smooth = <<"y","e","s">>,
                       PutIf(typ # <<"o","f","f","c","u","r","v","e">>,
                           Put(Put(NoAttrs, <<"x">>, FloatValue(float(x))),
                               <<"y">>, FloatValue(float(y))),
                           <<"t","y","p","e">>, StrValue(typ)),
                       <<"s","m","o","o","t","h">>, StrValue(<<"y","e","s">>)),
                   <<"n","a","m","e">>, StrValue(name)) >>

OutlineEntry(type, points, attrs) == [type |-> type, points |-> points, attrs |-> attrs]

\* the point children of a contour element
\* the loop over the children without "if tag != \"point\": continue"
PointElements_AnyChild(element) == element.children

PointElements(element) == SelectSeq(element.children, LAMBDA e : e.tag = "point")

\* what _normalizeGlifContourFormat1 makes of the normalized points:
\* None, an implied anchor or a contour
ContourFormat1(points) ==
    IF \E i \in 1..Len(points) : NoDict(points[i]) THEN <<>>
    ELSE IF points = <<>> THEN <<>>
    ELSE IF /\ Len(points) = 1
            /\ <<"t","y","p","e">> \in DOMAIN points[1][1]
            /\ points[1][1][<<"t","y","p","e">>] = StrValue(<<"m","o","v","e">>)
    THEN <<OutlineEntry("anchor", <<points[1][1]>>, NoAttrs)>>
    ELSE <<OutlineEntry("contour", [i \in 1..Len(points) |-> points[i][1]], NoAttrs)>>

normalizeGlifContourFormat1(element) ==
    ContourFormat1([i \in 1..Len(PointElements(element)) |->
                       normalizeGlifPointAttributesFormat1(PointElements(element)[i])])

normalizeGlifComponentAttributesFormat1(element) ==
    LET base == AttribGet(element, <<"b","a","s","e">>, None)
    IN IF Falsy(base) THEN NoAttrs
       ELSE Put(normalizeGlifTransformation(element), <<"b","a","s","e">>, StrValue(base))

\* "if not component: return": the entry of a component, or none
ComponentEntry(component) ==
    IF DOMAIN component = {} THEN <<>>
    ELSE <<OutlineEntry("component", <<>>, component)>>

normalizeGlifComponentFormat1(element) ==
    ComponentEntry(normalizeGlifComponentAttributesFormat1(element))

RECURSIVE simpleElements(_, _, _)
\* writer.simpleElement(tag, attrs=attrs) for each of a list of attrs
simpleElements(writer, tag, attrsList) ==
    IF attrsList = <<>> THEN writer
    ELSE simpleElements(simpleElement(writer, tag, Head(attrsList), None), tag,
                        Tail(attrsList))

RECURSIVE WriteOutline(_, _)
\* the loop that writes the contours and components of an outline
WriteOutline(outline, writer) ==
    IF outline = <<>> THEN writer
    ELSE LET obj == Head(outline)
             contourAttrs == IF <<"i","d","e","n","t","i","f","i","e","r">> \in DOMAIN obj.attrs
                             THEN obj.attrs ELSE NoAttrs
         IN WriteOutline(Tail(outline),
                IF obj.type = "contour"
                THEN endElement(simpleElements(beginElement(writer, "contour", contourAttrs),
                                               "point", obj.points), "contour")
                ELSE simpleElement(writer, "component", obj.attrs, None))

RECURSIVE WriteAnchors(_, _)
\* the loop that writes the implied anchors of a format 1 outline
WriteAnchors(anchors, writer) ==
    IF anchors = <<>> THEN writer
    ELSE LET anchor == Head(anchors).points[1]
         IN WriteAnchors(Tail(anchors),
                endElement(
                    simpleElement(beginElement(writer, "contour", NoAttrs), "point",
                        PutIf(<<"n","a","m","e">> \in DOMAIN anchor,
                            Put(Put(Put(NoAttrs, <<"t","y","p","e">>, StrValue(<<"m","o","v","e">>)),
                                    <<"x">>, anchor[<<"x">>]), <<"y">>, anchor[<<"y">>]),
                            <<"n","a","m","e">>, anchor[<<"n","a","m","e">>]),
                        None),
                    "contour"))

\* the normalized entries of a format 1 outline, in the order of the elements
OutlineEntriesFormat1(element) ==
    LET entry(e) == IF e.tag = "contour" THEN normalizeGlifContourFormat1(e)
                    ELSE IF e.tag = "component" THEN normalizeGlifComponentFormat1(e)
                    ELSE <<>>
    IN Concat([i \in 1..Len(element.children) |-> entry(element.children[i])])

\* the writing half with the implied anchors written ahead of the outline
WriteOutlineFormat1_AnchorsFirst(entries, writer) ==
    LET outline == SelectSeq(entries, LAMBDA e : e.type # "anchor")
        anchors == SelectSeq(entries, LAMBDA e : e.type = "anchor")
    IN IF outline = <<>> /\ anchors = <<>> THEN writer
       ELSE endElement(WriteOutline(outline,
                WriteAnchors(anchors, beginElement(writer, "outline", NoAttrs))), "outline")

\* the writing half of _normalizeGlifOutlineFormat1: the contours and the
\* components in their order, then the implied anchors in theirs
WriteOutlineFormat1(entries, writer) ==
    LET outline == SelectSeq(entries, LAMBDA e : e.type # "anchor")
        anchors == SelectSeq(entries, LAMBDA e : e.type = "anchor")
    IN IF outline = <<>> /\ anchors = <<>> THEN writer
       ELSE endElement(WriteAnchors(anchors,
                WriteOutline(outline, beginElement(writer, "outline", NoAttrs))), "outline")

normalizeGlifOutlineFormat1(element, writer) ==
    IF Len(element.children) = 0 THEN writer
    ELSE WriteOutlineFormat1(OutlineEntriesFormat1(element), writer)

\* attrs["identifier"] = identifier on the None that a bad coordinate returned
GlifPointRaisesFormat2(element) ==
    /\ AttribGet(element, <<"i","d","e","n","t","i","f","i","e","r">>, None) # None
    /\ Len(normalizeGlifPointAttributesFormat1(element)) = 0

\* "if identifier is not None: attrs["identifier"] = identifier"
WithIdentifier(attrs, identifier) ==
    IF identifier # None /\ Len(attrs) > 0
    THEN <<Put(attrs[1], <<"i","d","e","n","t","i","f","i","e","r">>, StrValue(identifier))>>
    ELSE attrs

normalizeGlifPointAttributesFormat2(element) ==
    WithIdentifier(normalizeGlifPointAttributesFormat1(element),
                   AttribGet(element, <<"i","d","e","n","t","i","f","i","e","r">>, None))

\* the points are read in order, and the first one that is not kept ends the contour
GlifContourRaisesFormat2(element) ==
    LET elements == PointElements(element)
    IN \E i \in 1..Len(elements) :
          /\ GlifPointRaisesFormat2(elements[i])
          /\ \A j \in 1..(i - 1) : ~NoDict(normalizeGlifPointAttributesFormat2(elements[j]))

\* what _normalizeGlifContourFormat2 makes of the normalized points
ContourFormat2(points, identifier) ==
    IF \E i \in 1..Len(points) : NoDict(points[i]) THEN <<>>
    ELSE IF points = <<>> THEN <<>>
    ELSE <<OutlineEntry("contour", [i \in 1..Len(points) |-> points[i][1]],
                        PutIf(identifier # None, NoAttrs, <<"i","d","e","n","t","i","f","i","e","r">>,
                              StrValue(identifier)))>>

normalizeGlifContourFormat2(element) ==
    ContourFormat2([i \in 1..Len(PointElements(element)) |->
                       normalizeGlifPointAttributesFormat2(PointElements(element)[i])],
                   AttribGet(element, <<"i","d","e","n","t","i","f","i","e","r">>, None))

normalizeGlifComponentAttributesFormat2(element) ==
    LET identifier == AttribGet(element, <<"i","d","e","n","t","i","f","i","e","r">>, None)
    IN PutIf(identifier # None, normalizeGlifComponentAttributesFormat1(element),
             <<"i","d","e","n","t","i","f","i","e","r">>, StrValue(identifier))

normalizeGlifComponentFormat2(element) ==
    ComponentEntry(normalizeGlifComponentAttributesFormat2(element))

GlifOutlineRaisesFormat2(element) ==
    \E i \in 1..Len(element.children) :
        element.children[i].tag = "contour" /\ GlifContourRaisesFormat2(element.children[i])

OutlineEntriesFormat2(element) ==
    LET entry(e) == IF e.tag = "contour" THEN normalizeGlifContourFormat2(e)
                    ELSE IF e.tag = "component" THEN normalizeGlifComponentFormat2(e)
                    ELSE <<>>
    IN Concat([i \in 1..Len(element.children) |-> entry(element.children[i])])

\* the writing half of _normalizeGlifOutlineFormat2
WriteOutlineFormat2(outline, writer) ==
    IF outline = <<>> THEN writer
    ELSE endElement(WriteOutline(outline, beginElement(writer, "outline", NoAttrs)),
                    "outline")

normalizeGlifOutlineFormat2(element, writer) ==
    WriteOutlineFormat2(OutlineEntriesFormat2(element), writer)

publicMarkColor == <<"p","u","b","l","i","c",".","m","a","r","k","C","o","l","o","r">>

\* _convertPlistElementToObject on a dict of strings: key -> text or None
convertPlistElementToObject(element) ==
    LET subs == element.children
        keyBefore(i) == subs[CHOOSE k \in 1..(i - 1) :
                               /\ subs[k].tag = "key"
                               /\ \A j \in (k + 1)..(i - 1) : subs[j].tag # "key"].text
        values == { i \in 1..Len(subs) : subs[i].tag # "key" }
        last(key) == CHOOSE i \in values :
                        /\ keyBefore(i) = key
                        /\ \A j \in values : keyBefore(j) = key => j <= i
    IN [key \in { keyBefore(i) : i \in values } |-> subs[last(key)].text]

\* XMLWriter._plistDict for a dict of strings; a None value writes nothing
plistDict(writer, data) ==
    LET order == Sorted(DOMAIN data)
        pair(i) == <<XmlLine(writer.indentLevel + 1, "simple", "key", <<>>, order[i])>>
                       \o (IF data[order[i]] = None THEN <<>>
                           ELSE <<XmlLine(writer.indentLevel + 1, "simple", "string", <<>>,
                                          data[order[i]])>>)
        begun == beginElement(writer, "dict", NoAttrs)
    IN endElement([begun EXCEPT !.lines = @ \o Concat([i \in 1..Len(order) |-> pair(i)])],
                  "dict")

\* the dict of the lib element once the mark color is normalized
GlifLibObject(element) ==
    LET obj == convertPlistElementToObject(element.children[1])
    IN IF publicMarkColor \in DOMAIN obj
       THEN LET color == normalizeColorString(obj[publicMarkColor])
            IN IF color # None THEN Put(obj, publicMarkColor, color)
               ELSE Without(obj, {publicMarkColor})
       ELSE obj

\* None.count(",") when the mark color is an empty string element
GlifLibRaises(element) ==
    /\ Len(element.children) > 0
    /\ LET obj == convertPlistElementToObject(element.children[1])
       IN publicMarkColor \in DOMAIN obj /\ obj[publicMarkColor] = None

normalizeGlifLib(element, writer) ==
    IF Len(element.children) = 0 THEN writer
    ELSE IF DOMAIN convertPlistElementToObject(element.children[1]) = {} THEN writer
    ELSE endElement(plistDict(beginElement(writer, "lib", NoAttrs), GlifLibObject(element)),
                    "lib")

RECURSIVE WriteUnicodes(_, _, _)
WriteUnicodes(unicodes, i, writer) ==
    IF i > Len(unicodes) THEN writer
    ELSE WriteUnicodes(unicodes, i + 1, normalizeGlifUnicode(unicodes[i], writer))

RECURSIVE WriteAnchorElements(_, _, _)
WriteAnchorElements(anchors, i, writer) ==
    IF i > Len(anchors) THEN writer
    ELSE WriteAnchorElements(anchors, i + 1, normalizeGlifAnchor(anchors[i], writer))

RECURSIVE WriteGuidelineElements(_, _, _)
WriteGuidelineElements(guidelines, i, writer) ==
    IF i > Len(guidelines) THEN writer
    ELSE WriteGuidelineElements(guidelines, i + 1,
                                normalizeGlifGuideline(guidelines[i], writer))

\* the steps of normalizeGLIF that write the children of the glyph element;
\* an element that was not found is <<>>
WriteGlifAdvance(advance, writer) ==
    IF advance # <<>> THEN normalizeGlifAdvance(advance[1], writer) ELSE writer

\* the image written whatever the format
WriteGlifImage_AnyFormat(image, version, writer) ==
    IF image # <<>> THEN normalizeGlifImage(image[1], writer) ELSE writer

WriteGlifImage(image, version, writer) ==
    IF NumGeq(version, <<"2">>) /\ image # <<>>
    THEN normalizeGlifImage(image[1], writer) ELSE writer

WriteGlifOutline(outline, version, writer) ==
    IF outline = <<>> THEN writer
    ELSE IF version = <<"1">> THEN normalizeGlifOutlineFormat1(outline[1], writer)
    ELSE normalizeGlifOutlineFormat2(outline[1], writer)

WriteGlifAnchors(anchors, version, writer) ==
    IF NumGeq(version, <<"2">>) THEN WriteAnchorElements(anchors, 1, writer) ELSE writer

WriteGlifGuidelines(guidelines, version, writer) ==
    IF NumGeq(version, <<"2">>) THEN WriteGuidelineElements(guidelines, 1, writer)
    ELSE writer

WriteGlifLib(libElement, writer) ==
    IF libElement # <<>> THEN normalizeGlifLib(libElement[1], writer) ELSE writer

WriteGlifNote(note, writer) ==
    IF note # <<>> THEN normalizeGlifNote(note[1], writer) ELSE writer

\* what a call of normalizeGLIF leaves: the text of the file, the exception it
\* raised or "no", and the image reference it returned
GlifRaised(exception, text) == [raised |-> exception, text |-> text, image |-> None]
GlifWritten(text, imageFileName) == [raised |-> "no", text |-> text, image |-> imageFileName]

\* the last top-level element of a tag, as <<element>>, or <<>> for None
LastElement(tree, tag) ==
    LET at == { i \in 1..Len(tree.children) : tree.children[i].tag = tag }
    IN IF at = {} THEN <<>>
       ELSE <<tree.children[CHOOSE i \in at : \A j \in at : j <= i]>>

\* the writer of normalizeGLIF when getText is called on it
GlifWriter(tree) ==
    LET glifVersion == AttribGet(tree, <<"f","o","r","m","a","t">>, None)
        name == AttribGet(tree, <<"n","a","m","e">>, None)
        advance == LastElement(tree, "advance")
        unicodes == SelectSeq(tree.children, LAMBDA e : e.tag = "unicode")
        note == LastElement(tree, "note")
        image == LastElement(tree, "image")
        guidelines == SelectSeq(tree.children, LAMBDA e : e.tag = "guideline")
        anchors == SelectSeq(tree.children, LAMBDA e : e.tag = "anchor")
        outline == LastElement(tree, "outline")
        lib == LastElement(tree, "lib")
        version == StripZeros(glifVersion)
        begun == beginElement(NewWriter, "glyph",
                     Put(Put(NoAttrs, <<"n","a","m","e">>, StrValue(name)),
                         <<"f","o","r","m","a","t">>, IntValue(version)))
    IN endElement(
           WriteGlifNote(note,
           WriteGlifLib(lib,
           WriteGlifGuidelines(guidelines, version,
           WriteGlifAnchors(anchors, version,
           WriteGlifOutline(outline, version,
           WriteGlifImage(image, version,
           WriteGlifAdvance(advance,
           WriteUnicodes(unicodes, 1, begun)))))))),
           "glyph")

\* normalizeGLIF on the parsed tree: the text of the file after the call, or what the call raised
\* (the explored format attributes are digits or not a number at all)
NormalizeGlifTree(tree, text) ==
    LET glifVersion == AttribGet(tree, <<"f","o","r","m","a","t">>, None)
        name == AttribGet(tree, <<"n","a","m","e">>, None)
        image == LastElement(tree, "image")
        anchors == SelectSeq(tree.children, LAMBDA e : e.tag = "anchor")
        outline == LastElement(tree, "outline")
        lib == LastElement(tree, "lib")
    IN IF glifVersion = None THEN GlifRaised("UFONormalizerError", text)
       ELSE IF glifVersion = <<>> \/ ~IsDigits(glifVersion)
       THEN GlifRaised("ValueError", text)
       ELSE LET version == StripZeros(glifVersion)
                atLeast2 == NumGeq(version, <<"2">>)
                imageFileName == IF atLeast2 /\ image # <<>>
                                 THEN AttribGet(image[1], <<"f","i","l","e","N","a","m","e">>, None)
                                 ELSE None
            IN IF name = None THEN GlifRaised("AttributeError", text)
               ELSE IF atLeast2 /\ image # <<>> /\ GlifImageRaises(image[1])
               THEN GlifRaised("AttributeError", text)
               ELSE IF /\ outline # <<>> /\ version # <<"1">>
                       /\ GlifOutlineRaisesFormat2(outline[1])
               THEN GlifRaised("TypeError", text)
               ELSE IF atLeast2 /\ \E i \in 1..Len(anchors) : GlifAnchorRaises(anchors[i])
               THEN GlifRaised("AttributeError", text)
               ELSE IF lib # <<>> /\ GlifLibRaises(lib[1])
               THEN GlifRaised("AttributeError", text)
               ELSE GlifWritten(getText(GlifWriter(tree)), imageFileName)

\* normalizeGLIF: ET.fromstring raises on a text that is not well formed
normalizeGLIF(text) ==
    IF ~WellFormed(text) THEN GlifRaised("ParseError", text)
    ELSE NormalizeGlifTree(fromstring(text), text)

(* The explored glyph files.                                               *)

MaxPasses == 2

Attr(name, value) == <<name, value>>
SimpleLine(level, tag, attrs, value) == XmlLine(level, "simple", tag, attrs, value)

UnicodeLine(hex) == SimpleLine(1, "unicode", <<Attr(<<"h","e","x">>, hex)>>, None)

\* each choice is [valid, lines]: whether the data is valid, and its lines
UnicodeChoices ==
    { [valid |-> TRUE, lines |-> <<>>],
      [valid |-> TRUE, lines |-> <<UnicodeLine(<<"e","9">>)>>],
      [valid |-> FALSE, lines |-> <<UnicodeLine(<<"g">>)>>],
      [valid |-> FALSE, lines |-> <<UnicodeLine(<<"0","0","0","4","1">>), SimpleLine(1, "unicode", <<>>, None)>>] }

AdvanceChoices ==
    { [valid |-> TRUE, lines |-> <<>>],
      [valid |-> TRUE, lines |->
          <<SimpleLine(1, "advance", <<Attr(<<"w","i","d","t","h">>, <<"5","0","0",".","0">>), Attr(<<"h","e","i","g","h","t">>, <<"-",".","5">>)>>, None)>>],
      [valid |-> TRUE, lines |-> <<SimpleLine(1, "advance", <<Attr(<<"w","i","d","t","h">>, <<"0">>)>>, None)>>],
      [valid |-> TRUE, lines |->
          <<SimpleLine(1, "advance", <<Attr(<<"w","i","d","t","h">>, <<"0",".","0","0","0","0","0","0","0","0","0","0","1">>)>>, None)>>],
      [valid |-> TRUE, lines |->
          <<SimpleLine(1, "advance", <<Attr(<<"h","e","i","g","h","t">>, <<"0",".","9","9","9","9","9","9","9","9","9","9","6">>)>>, None)>>],
      [valid |-> FALSE, lines |-> <<SimpleLine(1, "advance", <<Attr(<<"w","i","d","t","h">>, <<"a">>)>>, None)>>],
      [valid |-> FALSE, lines |->
          <<SimpleLine(1, "advance", <<Attr(<<"w","i","d","t","h">>, <<"6","0">>), Attr(<<"h","e","i","g","h","t">>, <<"_">>)>>, None)>>],
      [valid |-> FALSE, lines |->
          <<SimpleLine(1, "advance", <<Attr(<<"w","i","d","t","h">>, <<"a">>), Attr(<<"h","e","i","g","h","t">>, <<"5","0">>)>>, None)>>] }

LibLines(pairs) ==
    <<XmlLine(1, "begin", "lib", <<>>, None), XmlLine(2, "begin", "dict", <<>>, None)>>
        \o Concat([i \in 1..Len(pairs) |->
                     <<SimpleLine(3, "key", <<>>, pairs[i][1]),
                       SimpleLine(3, "string", <<>>, pairs[i][2])>>])
        \o <<XmlLine(2, "end", "dict", <<>>, None), XmlLine(1, "end", "lib", <<>>, None)>>

LibChoices ==
    { [valid |-> TRUE, lines |-> <<>>],
      [valid |-> TRUE, lines |-> LibLines(<<>>)],
      [valid |-> TRUE, lines |-> LibLines(<< <<<<"k">>, <<"v">>>> >>)],
      [valid |-> TRUE, lines |-> LibLines(<< <<<<"z">>, <<"v">>>>, <<<<"k">>, <<"v">>>> >>)],
      [valid |-> TRUE, lines |-> LibLines(<< <<publicMarkColor, <<"1",",","0",",","0",",",".","5">>>> >>)],
      [valid |-> FALSE, lines |-> LibLines(<< <<publicMarkColor, <<"b","a","d">>>> >>)],
      [valid |-> FALSE, lines |-> LibLines(<< <<publicMarkColor, <<"1",",","2",",","0",",","1">>>>, <<<<"k">>, <<"v">>>> >>)],
      [valid |-> FALSE, lines |-> LibLines(<< <<publicMarkColor, <<>>>> >>)],
      [valid |-> TRUE, lines |-> LibLines(<< <<<<"k">>, <<>>>> >>)],
      [valid |-> TRUE, lines |-> LibLines(<< <<<<"k">>, <<"&","a","m","p",";">>>> >>)] }

GlyphChoices ==
    { [valid |-> TRUE, attrs |-> <<Attr(<<"n","a","m","e">>, <<"a">>), Attr(<<"f","o","r","m","a","t">>, <<"2">>)>>],
      [valid |-> TRUE, attrs |-> <<Attr(<<"f","o","r","m","a","t">>, <<"1">>), Attr(<<"n","a","m","e">>, <<"a","&","a","m","p",";","b">>)>>],
      [valid |-> FALSE, attrs |-> <<Attr(<<"n","a","m","e">>, <<"a">>), Attr(<<"f","o","r","m","a","t">>, <<"0","2">>)>>],
      [valid |-> FALSE, attrs |-> <<Attr(<<"n","a","m","e">>, <<"a">>), Attr(<<"f","o","r","m","a","t">>, <<"x">>)>>],
      [valid |-> FALSE, attrs |-> <<Attr(<<"f","o","r","m","a","t">>, <<"2">>)>>],
      [valid |-> FALSE, attrs |-> <<Attr(<<"n","a","m","e">>, <<"a">>)>>] }

Choice(isValid, lines) == [valid |-> isValid, lines |-> lines]

BeginLine(level, tag, attrs) == XmlLine(level, "begin", tag, attrs, None)
EndLine(level, tag) == XmlLine(level, "end", tag, <<>>, None)

ImageLine(attrs) == SimpleLine(1, "image", attrs, None)

ImageChoices ==
    { Choice(TRUE, <<>>),
      Choice(TRUE, <<ImageLine(<<Attr(<<"f","i","l","e","N","a","m","e">>, <<"a",".","p","n","g">>), Attr(<<"x","S","c","a","l","e">>, <<".","5">>),
                                 Attr(<<"y","S","c","a","l","e">>, <<"1",".","0">>), Attr(<<"c","o","l","o","r">>, <<"1",",","0",",","0",",",".","5">>)>>)>>),
      Choice(FALSE, <<ImageLine(<<Attr(<<"f","i","l","e","N","a","m","e">>, <<"a",".","p","n","g">>), Attr(<<"x","O","f","f","s","e","t">>, <<"x">>)>>)>>),
      Choice(FALSE, <<ImageLine(<<Attr(<<"f","i","l","e","N","a","m","e">>, <<"a",".","p","n","g">>), Attr(<<"c","o","l","o","r">>, <<"1",",","2",",","0",",","0">>)>>)>>),
      Choice(FALSE, <<ImageLine(<<Attr(<<"c","o","l","o","r">>, <<"r","e","d">>)>>)>>),
      Choice(TRUE, <<ImageLine(<<Attr(<<"f","i","l","e","N","a","m","e">>, <<"a","&","q","u","o","t",";","b",".","p","n","g">>)>>)>>) }

PointLine(attrs) == SimpleLine(3, "point", attrs, None)

ContourLines(attrs, points) ==
    <<BeginLine(2, "contour", attrs)>> \o points \o <<EndLine(2, "contour")>>

OutlineLines(entries) ==
    <<BeginLine(1, "outline", <<>>)>> \o Concat(entries) \o <<EndLine(1, "outline")>>

\* a contour of one line point, a contour of one move point, a component
LineContour(x) ==
    ContourLines(<<>>, <<PointLine(<<Attr(<<"t","y","p","e">>, <<"l","i","n","e">>), Attr(<<"y">>, <<"0">>),
                                      Attr(<<"x">>, x)>>)>>)
MoveContour(name) ==
    ContourLines(<<>>, <<PointLine(<<Attr(<<"t","y","p","e">>, <<"m","o","v","e">>), Attr(<<"y">>, <<"7">>),
                                      Attr(<<"x">>, <<"5">>), Attr(<<"s","m","o","o","t","h">>, <<"y","e","s">>),
                                      Attr(<<"n","a","m","e">>, name)>>)>>)
ComponentLine(attrs) == SimpleLine(2, "component", attrs, None)

\* the four entries whose orders are explored
OutlineEntries ==
    << LineContour(<<"1">>), MoveContour(<<"t","o","p">>),
       <<ComponentLine(<<Attr(<<"b","a","s","e">>, <<"b">>), Attr(<<"y","S","c","a","l","e">>, <<"2">>)>>)>>,
       MoveContour(<<"b","o","t","t","o","m">>) >>

OutlineOrders == Permutations(1..Len(OutlineEntries))

OutlineChoices ==
    { Choice(TRUE, OutlineLines([i \in 1..Len(OutlineEntries) |-> OutlineEntries[order[i]]])) :
          order \in OutlineOrders }
    \cup
    { Choice(TRUE, <<>>),
      Choice(TRUE, <<SimpleLine(1, "outline", <<>>, None)>>),
      Choice(TRUE, OutlineLines(<<
          ContourLines(<<Attr(<<"i","d","e","n","t","i","f","i","e","r">>, <<"c","1">>)>>,
              <<PointLine(<<Attr(<<"x">>, <<"1">>), Attr(<<"y">>, <<"2">>), Attr(<<"t","y","p","e">>, <<"c","u","r","v","e">>),
                            Attr(<<"s","m","o","o","t","h">>, <<"y","e","s">>), Attr(<<"i","d","e","n","t","i","f","i","e","r">>, <<"p","1">>)>>),
                PointLine(<<Attr(<<"x">>, <<"3",".","5","0">>), Attr(<<"y">>, <<"-","4">>),
                            Attr(<<"s","m","o","o","t","h">>, <<"y","e","s">>)>>)>>),
          <<ComponentLine(<<Attr(<<"b","a","s","e">>, <<"b">>), Attr(<<"i","d","e","n","t","i","f","i","e","r">>, <<"k","1">>)>>)>> >>)),
      Choice(FALSE, OutlineLines(<<
          ContourLines(<<>>, <<PointLine(<<Attr(<<"x">>, <<"a">>), Attr(<<"y">>, <<"0">>)>>)>>),
          LineContour(<<"1">>) >>)),
      Choice(FALSE, OutlineLines(<<
          ContourLines(<<>>, <<PointLine(<<Attr(<<"x">>, <<"a">>), Attr(<<"y">>, <<"0">>),
                                           Attr(<<"i","d","e","n","t","i","f","i","e","r">>, <<"p","1">>)>>)>>),
          LineContour(<<"1">>) >>)),
      Choice(FALSE, OutlineLines(<<
          ContourLines(<<>>, <<PointLine(<<Attr(<<"y">>, <<"0">>), Attr(<<"i","d","e","n","t","i","f","i","e","r">>, <<"p","1">>)>>)>>),
          LineContour(<<"1">>) >>)),
      Choice(FALSE, OutlineLines(<<
          ContourLines(<<>>, <<PointLine(<<Attr(<<"x">>, <<"1">>), Attr(<<"y">>, <<"0">>),
                                           Attr(<<"t","y","p","e">>, <<"a","r","c">>)>>),
                               PointLine(<<Attr(<<"x">>, <<"1">>), Attr(<<"y">>, <<"0">>)>>)>>),
          LineContour(<<"1">>) >>)),
      Choice(FALSE, OutlineLines(<<
          ContourLines(<<>>, <<SimpleLine(3, "unknown", <<>>, None),
                               PointLine(<<Attr(<<"x">>, <<"1">>), Attr(<<"y">>, <<"0">>),
                                           Attr(<<"t","y","p","e">>, <<"m","o","v","e">>)>>)>>),
          <<SimpleLine(2, "unknown", <<>>, None)>>,
          ContourLines(<<>>, <<PointLine(<<Attr(<<"x">>, <<"1">>), Attr(<<"y">>, <<"0">>),
                                           Attr(<<"t","y","p","e">>, <<"a","r","c">>)>>),
                               PointLine(<<Attr(<<"x">>, <<"1">>), Attr(<<"y">>, <<"0">>)>>)>>),
          LineContour(<<"1">>) >>)),
      Choice(FALSE, OutlineLines(<<
          <<ComponentLine(<<Attr(<<"i","d","e","n","t","i","f","i","e","r">>, <<"k","1">>)>>)>>,
          <<ComponentLine(<<Attr(<<"b","a","s","e">>, <<>>), Attr(<<"x","S","c","a","l","e">>, <<"2">>)>>)>>,
          <<SimpleLine(2, "contour", <<>>, None)>> >>)) }

AnchorLine(attrs) == SimpleLine(1, "anchor", attrs, None)

AnchorChoices ==
    { Choice(TRUE, <<>>),
      Choice(TRUE, <<AnchorLine(<<Attr(<<"n","a","m","e">>, <<"t","o","p">>), Attr(<<"x">>, <<"2","3","0">>),
                                  Attr(<<"y">>, <<"4",".","5","0">>), Attr(<<"c","o","l","o","r">>, <<"1",",","0",",","0",",",".","5">>),
                                  Attr(<<"i","d","e","n","t","i","f","i","e","r">>, <<"a","1">>)>>),
                     AnchorLine(<<Attr(<<"x">>, <<"1">>), Attr(<<"y">>, <<"2">>)>>)>>),
      Choice(FALSE, <<AnchorLine(<<Attr(<<"x">>, <<"1">>), Attr(<<"y">>, <<"b">>),
                                   Attr(<<"c","o","l","o","r">>, <<"r","e","d">>)>>)>>),
      Choice(FALSE, <<AnchorLine(<<Attr(<<"x">>, <<"1">>), Attr(<<"y">>, <<"2">>),
                                   Attr(<<"c","o","l","o","r">>, <<"1",",","1",",","-","1",",","1">>)>>)>>) }

GuidelineLine(attrs) == SimpleLine(1, "guideline", attrs, None)

GuidelineChoices ==
    { Choice(TRUE, <<>>),
      Choice(TRUE, <<GuidelineLine(<<Attr(<<"x">>, <<"1">>), Attr(<<"y">>, <<"2">>),
                                     Attr(<<"a","n","g","l","e">>, <<"3">>), Attr(<<"n","a","m","e">>, <<"g">>),
                                     Attr(<<"c","o","l","o","r">>, <<"1",",","0",",","0",",",".","5">>),
                                     Attr(<<"i","d","e","n","t","i","f","i","e","r">>, <<"g","1">>)>>),
                     GuidelineLine(<<Attr(<<"y">>, <<"2","0",".","0">>)>>)>>),
      Choice(FALSE, <<GuidelineLine(<<Attr(<<"x">>, <<"1">>), Attr(<<"a","n","g","l","e">>, <<"3">>)>>),
                      GuidelineLine(<<Attr(<<"x">>, <<"1">>), Attr(<<"y">>, <<"2">>)>>),
                      GuidelineLine(<<Attr(<<"n","a","m","e">>, <<"g">>)>>)>>),
      Choice(FALSE, <<GuidelineLine(<<Attr(<<"x">>, <<"1">>), Attr(<<"c","o","l","o","r">>, <<"r","e","d">>)>>),
                      GuidelineLine(<<Attr(<<"x">>, <<"b">>)>>),
                      GuidelineLine(<<Attr(<<"x">>, <<>>), Attr(<<"y">>, <<"5">>)>>)>>) }

NoteLine(value) == SimpleLine(1, "note", <<>>, value)

NoteChoices ==
    { Choice(TRUE, <<>>),
      Choice(TRUE, <<NoteLine(<<" "," ","h","e","l","l","o"," "," ","w","o","r","l","d"," ">>)>>),
      Choice(TRUE, <<NoteLine(<<" "," "," ">>)>>),
      Choice(TRUE, <<NoteLine(<<"a"," ","&","l","t",";"," ","b"," ","&","a","m","p",";"," ","c"," ","&","g","t",";"," ","d","\n","s","e","c","o","n","d"," ","l","i","n","e">>)>>),
      Choice(TRUE, <<NoteLine(Rep("w", 40) \o <<" ">> \o Rep("x", 35) \o <<" ", " ", "z">>)>>) }

\* the child elements of a glyph element, in the order normalizeGLIF names them
ChildChoices ==
    << UnicodeChoices, AdvanceChoices, ImageChoices, OutlineChoices, AnchorChoices,
       GuidelineChoices, LibChoices, NoteChoices >>

\* the children that stay while one of them varies
BaseChildren ==
    << Choice(TRUE, <<UnicodeLine(<<"e","9">>)>>),
       Choice(TRUE, <<SimpleLine(1, "advance", <<Attr(<<"w","i","d","t","h">>, <<"5","0","0">>)>>, None)>>),
       Choice(TRUE, <<ImageLine(<<Attr(<<"f","i","l","e","N","a","m","e">>, <<"a",".","p","n","g">>)>>)>>),
       Choice(TRUE, OutlineLines(OutlineEntries)),
       Choice(TRUE, <<AnchorLine(<<Attr(<<"x">>, <<"1">>), Attr(<<"y">>, <<"2">>)>>)>>),
       Choice(TRUE, <<GuidelineLine(<<Attr(<<"y">>, <<"2","0">>)>>)>>),
       Choice(TRUE, LibLines(<< <<<<"k">>, <<"v">>>> >>)),
       Choice(TRUE, <<NoteLine(<<"h","e","l","l","o">>)>>) >>

\* the orders in which the input holds its children
ChildOrders ==
    { <<1, 2, 3, 4, 5, 6, 7, 8>>, <<8, 7, 6, 5, 4, 3, 2, 1>>, <<4, 7, 1, 5, 8, 3, 6, 2>> }

VariedGlyphChoices ==
    { [valid |-> TRUE, attrs |-> <<Attr(<<"n","a","m","e">>, <<"a">>), Attr(<<"f","o","r","m","a","t">>, <<"2">>)>>],
      [valid |-> TRUE, attrs |-> <<Attr(<<"n","a","m","e">>, <<"a">>), Attr(<<"f","o","r","m","a","t">>, <<"1">>)>>],
      [valid |-> TRUE, attrs |-> <<Attr(<<"f","o","r","m","a","t">>, <<"2">>), Attr(<<"n","a","m","e">>, <<"a","&","q","u","o","t",";","b","&","l","t",";","c">>)>>] }

\* the glyph files in which one child varies and the others are the base ones
VariedGlyphs ==
    { LET children == [i \in 1..Len(BaseChildren) |-> IF i = c[1] THEN c[2] ELSE BaseChildren[i]]
      IN Choice(g.valid /\ c[2].valid,
                <<xmlDeclaration, BeginLine(0, "glyph", g.attrs)>>
                    \o Concat([i \in 1..Len(order) |-> children[order[i]].lines])
                    \o <<EndLine(0, "glyph")>>) :
          g \in VariedGlyphChoices, order \in ChildOrders,
          c \in UNION { {<<k, choice>> : choice \in ChildChoices[k]} : k \in 1..Len(ChildChoices) } }

\* the glyph files in which the glyph element, its unicodes, its advance and
\* its lib vary together
CombinedGlyphs ==
    { Choice(g.valid /\ u.valid /\ a.valid /\ l.valid,
             <<xmlDeclaration, XmlLine(0, "begin", "glyph", g.attrs, None)>>
                 \o a.lines \o l.lines \o u.lines
                 \o <<XmlLine(0, "end", "glyph", <<>>, None)>>) :
          g \in GlyphChoices, u \in UnicodeChoices, a \in AdvanceChoices, l \in LibChoices }

GlifInit ==
    /\ call = NoCall /\ ret = Pending
    /\ RenameIdle
    /\ ColorIdle
    /\ UfoIdle
    /\ PureIdle
    /\ WriterIdle
    /\ \E file \in CombinedGlyphs \cup VariedGlyphs :
          /\ glif = file.lines
          /\ valid = file.valid
    /\ read = <<>>
    /\ written = <<>>
    /\ gpc = "ready"

\* one call of normalizeGLIF on the file
NormalizeGLIF ==
    /\ gpc = "ready"
    /\ Len(written) < MaxPasses
    /\ read' = Append(read, glif)
    /\ written' = Append(written, normalizeGLIF(glif))
    /\ glif' = written'[Len(written')].text
    /\ UNCHANGED <<valid, gpc, nameVars, renameVars, colorVars, ufoVars, pureVars, writerVars>>

GlifNext == NormalizeGLIF

GlifSpec == GlifInit /\ [][GlifNext]_vars

---------------------------------------------------------------------------
(* _normalizeColorString as a function of its argument.                    *)

MaxColorFields == 5

\* the fields of the explored color strings: numbers of the range, and the
\* fields of which a string holds at most one (the explored numbers are
\* written without an exponent)
ColorFields == { <<"0">>, <<"1">>, <<".","5">> }
OddColorFields ==
    { <<"2">>, <<"-","1">>, <<"n","a","n">>, <<"a">>, <<>>, <<" ","1"," ">>, <<"-","0">>, <<"0",".","9","9","9","9","9","9","9","9","9","9","9">>, <<"i","n","f">>,
      <<"1",".","0">>, <<"0","0",".","2","5","0">>, <<"1",".","0","1">>, <<"-",".","5">>, <<"+","1">>, <<"N","a","N">>, <<"0",".","5",".","5">> }

ColorFieldLists ==
    UNION { { fields : fields \in [1..n -> ColorFields] }
            \cup { [fields EXCEPT ![k] = odd] :
                       fields \in [1..n -> ColorFields], k \in 1..n, odd \in OddColorFields } :
            n \in 0..MaxColorFields }

ColorInit ==
    /\ call = NoCall /\ ret = Pending
    /\ RenameIdle
    /\ GlifIdle
    /\ UfoIdle
    /\ PureIdle
    /\ WriterIdle
    /\ colorString \in { Join(fields, ",") : fields \in ColorFieldLists }
    /\ colorResult = NotCalled

\* one call of _normalizeColorString
NormalizeColorString ==
    /\ colorResult = NotCalled
    /\ colorResult' = normalizeColorString(colorString)
    /\ UNCHANGED <<colorString, nameVars, renameVars, glifVars, ufoVars, pureVars, writerVars>>

ColorNext == NormalizeColorString

ColorSpec == ColorInit /\ [][ColorNext]_vars

---------------------------------------------------------------------------
(* The package pass: normalizeUFO on a package on disk.                    *)
(*                                                                         *)
(* A modification time is a whole number of quarter seconds, so that some  *)
(* times have one decimal place and some have two.  The model keeps the    *)
(* modification time of the files subpathGetModTime is called on: the      *)
(* glyph files, metainfo.plist and layercontents.plist.  A property list   *)
(* file is its object and whether its text is the normalized one; the text *)
(* plistlib writes is never the normalized one.  The explored glyph and    *)
(* layer names are the file names userNameToFileName gives them, so the    *)
(* renaming passes rename nothing, and the explored texts are ASCII.       *)

normalizerVersion == <<"0","a","1">>
modTimeLibKey == <<"o","r","g",".","u","n","i","f","i","e","d","f","o","n","t","o","b","j","e","c","t",".","n","o","r","m","a","l","i","z","e","r",".","m","o","d","T","i","m","e","s">>
imageReferencesLibKey == <<"o","r","g",".","u","n","i","f","i","e","d","f","o","n","t","o","b","j","e","c","t",".","n","o","r","m","a","l","i","z","e","r",".","i","m","a","g","e","R","e","f","e","r","e","n","c","e","s">>

\* os.path.getmtime: the float of a number of quarter seconds
ModTime(q) ==
    [neg |-> FALSE, int |-> Decimal(q \div 4),
     frac |-> << <<>>, <<"2","5">>, <<"5">>, <<"7","5">> >>[(q % 4) + 1]]

\* "%.1f" % modTime: the digits up to the first place, rounded to the
\* nearest with a tie going to the even digit
TenthsDigits(f) == f.int \o <<IF f.frac = <<>> THEN "0" ELSE f.frac[1]>>

RoundsUp(f) ==
    /\ Len(f.frac) >= 2
    /\ \/ DigitVal(f.frac[2]) > 5
       \/ /\ DigitVal(f.frac[2]) = 5
          /\ Len(f.frac) > 2 \/ DigitVal(f.frac[1]) % 2 = 1

PointBeforeLast(digits) ==
    SubSeq(digits, 1, Len(digits) - 1) \o <<".", digits[Len(digits)]>>

FormatModTime(f) ==
    PointBeforeLast(IF RoundsUp(f) THEN NumInc(TenthsDigits(f)) ELSE TenthsDigits(f))

ModTimeLines(modTimes, order) ==
    [i \in 1..Len(order) |-> FormatModTime(modTimes[order[i]]) \o <<" ">> \o order[i]]

\* storeModTimes: the lib with the text of the times under modTimeLibKey
storeModTimes(lib, modTimes) ==
    Put(lib, modTimeLibKey,
        Join(<<<<"v","e","r","s","i","o","n",":"," ">> \o normalizerVersion>>
                 \o ModTimeLines(modTimes, Sorted(DOMAIN modTimes)), "\n"))

\* line.split(" ", 1) (the explored lines hold a space and a number)
FirstSpace(line) == CHOOSE i \in 1..Len(line) : line[i] = " " /\ \A j \in 1..(i - 1) : line[j] # " "
LineModTime(line) == float(SubSeq(line, 1, FirstSpace(line) - 1))
LineFileName(line) == SubSeq(line, FirstSpace(line) + 1, Len(line))

\* the dict the loop of readModTimes fills: a later line replaces an earlier one
ModTimesOfLines(lines) ==
    [fileName \in { LineFileName(lines[i]) : i \in 2..Len(lines) } |->
        LineModTime(lines[CHOOSE i \in 2..Len(lines) :
                              /\ LineFileName(lines[i]) = fileName
                              /\ \A j \in (i + 1)..Len(lines) : LineFileName(lines[j]) # fileName])]

VersionOfLines(lines) == strip(Split(lines[1], ":")[Len(Split(lines[1], ":"))])

\* readModTimes: nothing when the lib has no times or times of another version
readModTimes(lib) ==
    IF modTimeLibKey \notin DOMAIN lib \/ lib[modTimeLibKey] = <<>> THEN <<>>
    ELSE IF VersionOfLines(splitlines(lib[modTimeLibKey])) # normalizerVersion THEN <<>>
    ELSE ModTimesOfLines(splitlines(lib[modTimeLibKey]))

\* a decision that takes a file as changed only when it is newer than stored
subpathNeedsRefresh_NewerOnly(modTimes, latest, key) ==
    IF key \notin DOMAIN modTimes THEN TRUE
    ELSE \/ NumLess(modTimes[key].int, latest.int)
         \/ /\ modTimes[key].int = latest.int
            /\ DigitsLess(SubSeq(modTimes[key].frac \o <<"0", "0">>, 1, 2),
                          SubSeq(latest.frac \o <<"0", "0">>, 1, 2))

\* subpathNeedsRefresh, with the time os.path.getmtime gives for the file
subpathNeedsRefresh(modTimes, latest, key) ==
    IF key \notin DOMAIN modTimes THEN TRUE
    ELSE ~FloatEq(latest, modTimes[key])

\* data != existing in subpathWriteFile: existing is <<>> for a missing file;
\* under Python 3 a str never equals the bytes that were read
DataDiffers(data, isBytes, existing, build) ==
    \/ existing = <<>>
    \/ build = 3 /\ ~isBytes
    \/ data # existing[1]

\* what a call of subpathWriteFile did: the path, whether the file held the
\* data already, and whether the file was opened for writing
WriteEvent(path, data, isBytes, existing, build) ==
    [path |-> path,
     same |-> existing # <<>> /\ data = existing[1],
     wrote |-> DataDiffers(data, isBytes, existing, build)]

\* subpathWriteFile on a glyph file, with the text normalizeGLIF made
WriteGlif(file, text, build, now) ==
    IF DataDiffers(text, FALSE, <<file.text>>, build)
    THEN [file EXCEPT !.text = text, !.mtime = now]
    ELSE file

\* the text of a property list file, as far as the model tells texts apart
PlistText(file) == <<file.object, file.normal>>

\* subpathWriteFile on a property list file, with the normalized text
WriteNormalPlist(file, object, build, now) ==
    IF DataDiffers(<<object, TRUE>>, FALSE, <<PlistText(file)>>, build)
    THEN [file EXCEPT !.object = object, !.normal = TRUE, !.mtime = now]
    ELSE file

\* subpathWritePlist on a property list file that exists: the bytes of plistlib
WriteRawPlist(file, object, build, now) ==
    IF DataDiffers(<<object, FALSE>>, TRUE, <<PlistText(file)>>, build)
    THEN [file EXCEPT !.object = object, !.normal = FALSE, !.mtime = now]
    ELSE file

\* the state of a call of normalizeUFO: the package, the font's mod times,
\* and what the call has done so far
NewRun(package, modTimes) ==
    [disk |-> package, modTimes |-> modTimes, raised |-> "no",
     refreshed |-> {}, skipped |-> {}, events |-> {},
     layerTimes |-> <<>>, references |-> <<>>, stored |-> <<>>,
     available |-> {}, referenced |-> {}, purged |-> {}, plist |-> <<>>,
     before |-> package, cache |-> modTimes]

Raise(st, exception) == [st EXCEPT !.raised = exception]

\* os.path.join(directory, fileName) on a POSIX host
Location(directory, fileName) == directory \o <<"/">> \o fileName

(* _normalizePlistFile on metainfo.plist and layercontents.plist, whose     *)
(* objects are not empty.                                                  *)

metaInfoKey == <<"m","e","t","a","i","n","f","o",".","p","l","i","s","t">>
layerContentsKey == <<"l","a","y","e","r","c","o","n","t","e","n","t","s",".","p","l","i","s","t">>

\* the call on a file that needs it: the file is written, its time recorded
PlistRefreshed(st, key, file, after, build) ==
    [st EXCEPT !.plist = after,
               !.modTimes = Put(@, key, ModTime(after.mtime)),
               !.refreshed = @ \cup {key},
               !.events = @ \cup {WriteEvent(key, <<file.object, TRUE>>, FALSE,
                                             <<PlistText(file)>>, build)}]

\* _normalizePlistFile: the state after the call, the file under plist
normalizePlistFile(st, key, file, build, now) ==
    IF subpathNeedsRefresh(st.modTimes, ModTime(file.mtime), key)
    THEN PlistRefreshed(st, key, file, WriteNormalPlist(file, file.object, build, now), build)
    ELSE [st EXCEPT !.plist = file, !.skipped = @ \cup {key}]

StoreMetaInfo(st) == [st EXCEPT !.disk.metainfo = <<st.plist>>]

normalizeMetaInfoPlist(st, build, now) ==
    StoreMetaInfo(normalizePlistFile(st, metaInfoKey, st.disk.metainfo[1], build, now))

StoreLayerContents(st) == [st EXCEPT !.disk.layercontents = <<st.plist>>]

normalizeLayerContentsPlist(st, build, now) ==
    StoreLayerContents(
        normalizePlistFile(st, layerContentsKey, st.disk.layercontents[1], build, now))

(* normalizeGlyphNames when no file is renamed: contents.plist is written   *)
(* as plistlib writes it and then normalized, under no mod times.           *)

contentsName == <<"c","o","n","t","e","n","t","s",".","p","l","i","s","t">>

ContentsEvents(path, file, build) ==
    { WriteEvent(path, <<file.object, FALSE>>, TRUE, <<PlistText(file)>>, build),
      WriteEvent(path, <<file.object, TRUE>>, FALSE, << <<file.object, FALSE>> >>, build) }

normalizeGlyphNames(st, l, build) ==
    [st EXCEPT !.disk.layers[l].contents.normal = TRUE,
               !.events = @ \cup ContentsEvents(Location(st.disk.layers[l].directory, contentsName),
                                                st.disk.layers[l].contents, build)]

(* normalizeUFO1And2GlyphsDirectory: the glyph files in the order of their  *)
(* names, each under the key glyphs/<fileName> of the font's mod times.     *)

GlifRecorded12(st, i, location, file, text, build, now) ==
    [st EXCEPT !.disk.layers[1].glyphs[i] = WriteGlif(file, text, build, now),
               !.modTimes = Put(@, location, ModTime(WriteGlif(file, text, build, now).mtime)),
               !.refreshed = @ \cup {location},
               !.events = @ \cup {WriteEvent(location, text, FALSE, <<file.text>>, build)}]

GlifRefreshed12(st, i, location, file, outcome, build, now) ==
    IF outcome.raised # "no"
    THEN [st EXCEPT !.raised = outcome.raised, !.refreshed = @ \cup {location}]
    ELSE GlifRecorded12(st, i, location, file, outcome.text, build, now)

Glif12(st, i, location, file, build, now) ==
    IF subpathNeedsRefresh(st.modTimes, ModTime(file.mtime), location)
    THEN GlifRefreshed12(st, i, location, file, normalizeGLIF(file.text), build, now)
    ELSE [st EXCEPT !.skipped = @ \cup {location}]

RECURSIVE Glifs12(_, _, _, _)
Glifs12(st, i, build, now) ==
    IF st.raised # "no" \/ i > Len(st.disk.layers[1].glyphs) THEN st
    ELSE Glifs12(Glif12(st, i, Location(st.disk.layers[1].directory, st.disk.layers[1].glyphs[i].fileName),
                        st.disk.layers[1].glyphs[i], build, now),
                 i + 1, build, now)

normalizeUFO1And2GlyphsDirectory(st, build, now) ==
    Glifs12(normalizeGlyphNames(st, 1, build), 1, build, now)

(* normalizeGlyphsDirectory: the glyph files of a layer of a format 3       *)
(* package, each under the key <fileName> of the layer's mod times.        *)

\* layerInfo.get("lib", {})
LayerLib(info) ==
    IF info # <<>> /\ "lib" \in DOMAIN info[1].object THEN info[1].object.lib ELSE <<>>

\* readImageReferences: <<>> for None, <<references>> otherwise
readImageReferences(lib) ==
    IF imageReferencesLibKey \in DOMAIN lib THEN <<lib[imageReferencesLibKey]>> ELSE <<>>

storeImageReferences(lib, imageReferences) == Put(lib, imageReferencesLibKey, imageReferences)

\* the references and the mod times the layer starts from: when no
\* references are stored everything is checked
LayerBegun(st, lib, stored) ==
    [st EXCEPT !.references = IF stored # <<>> THEN stored[1] ELSE <<>>,
               !.layerTimes = IF stored # <<>> THEN readModTimes(lib) ELSE <<>>]

GlifRecorded3(st, l, i, file, outcome, build, now) ==
    [st EXCEPT !.disk.layers[l].glyphs[i] = WriteGlif(file, outcome.text, build, now),
               !.references = IF outcome.image # None THEN Put(@, file.fileName, outcome.image)
                              ELSE Without(@, {file.fileName}),
               !.layerTimes = Put(@, file.fileName,
                                  ModTime(WriteGlif(file, outcome.text, build, now).mtime)),
               !.refreshed = @ \cup {Location(st.disk.layers[l].directory, file.fileName)},
               !.events = @ \cup {WriteEvent(Location(st.disk.layers[l].directory, file.fileName),
                                             outcome.text, FALSE, <<file.text>>, build)}]

GlifRefreshed3(st, l, i, file, outcome, build, now) ==
    IF outcome.raised # "no"
    THEN [st EXCEPT !.raised = outcome.raised,
                    !.refreshed = @ \cup {Location(st.disk.layers[l].directory, file.fileName)}]
    ELSE GlifRecorded3(st, l, i, file, outcome, build, now)

Glif3(st, l, i, file, build, now) ==
    IF subpathNeedsRefresh(st.layerTimes, ModTime(file.mtime), file.fileName)
    THEN GlifRefreshed3(st, l, i, file, normalizeGLIF(file.text), build, now)
    ELSE [st EXCEPT !.skipped = @ \cup {Location(st.disk.layers[l].directory, file.fileName)}]

RECURSIVE Glifs3(_, _, _, _, _)
Glifs3(st, l, i, build, now) ==
    IF st.raised # "no" \/ i > Len(st.disk.layers[l].glyphs) THEN st
    ELSE Glifs3(Glif3(st, l, i, st.disk.layers[l].glyphs[i], build, now), l, i + 1, build, now)

\* _normalizeLayerInfoColor
normalizeLayerInfoColor(obj) ==
    IF "color" \notin DOMAIN obj THEN obj
    ELSE IF normalizeColorString(obj.color) = None
    THEN [k \in DOMAIN obj \ {"color"} |-> obj[k]]
    ELSE [obj EXCEPT !.color = normalizeColorString(obj.color)]

layerInfoName == <<"l","a","y","e","r","i","n","f","o",".","p","l","i","s","t">>

\* what _normalizePlistFile leaves of layerinfo.plist: nothing when its
\* object is empty
LayerInfoWritten(info, build) ==
    IF DOMAIN info.object = {} THEN <<>>
    ELSE IF DataDiffers(<<normalizeLayerInfoColor(info.object), TRUE>>, FALSE,
                        <<PlistText(info)>>, build)
    THEN <<[object |-> normalizeLayerInfoColor(info.object), normal |-> TRUE]>>
    ELSE <<info>>

LayerInfoEvents(directory, info, build) ==
    IF DOMAIN info.object = {} THEN {}
    ELSE {WriteEvent(Location(directory, layerInfoName),
                     <<normalizeLayerInfoColor(info.object), TRUE>>, FALSE,
                     <<PlistText(info)>>, build)}

normalizeLayerInfoPlist(st, l, build) ==
    IF st.disk.layers[l].info = <<>> THEN st
    ELSE [st EXCEPT !.disk.layers[l].info = LayerInfoWritten(@[1], build),
                    !.events = @ \cup LayerInfoEvents(st.disk.layers[l].directory,
                                                      st.disk.layers[l].info[1], build)]

\* an end of normalizeGlyphsDirectory after which only the references of
\* the last layer count
LayerDone_LastLayerOnly(st, l, lib, build) ==
    IF st.raised # "no" THEN st
    ELSE normalizeLayerInfoPlist(
             [st EXCEPT !.stored = Append(@,
                            storeImageReferences(storeModTimes(lib, st.layerTimes),
                                                 st.references)),
                        !.referenced = { st.references[k] : k \in DOMAIN st.references }],
             l, build)

\* the end of normalizeGlyphsDirectory: the times and the references are
\* stored in layerLib, a dict that no statement writes to a file, the layer
\* info file is normalized from the disk, and the references are returned
LayerDone(st, l, lib, build) ==
    IF st.raised # "no" THEN st
    ELSE normalizeLayerInfoPlist(
             [st EXCEPT !.stored = Append(@,
                            storeImageReferences(storeModTimes(lib, st.layerTimes),
                                                 st.references)),
                        !.referenced = @ \cup { st.references[k] : k \in DOMAIN st.references }],
             l, build)

normalizeGlyphsDirectory(st, l, build, now) ==
    LayerDone(Glifs3(normalizeGlyphNames(
                         LayerBegun(st, LayerLib(st.disk.layers[l].info),
                                    readImageReferences(LayerLib(st.disk.layers[l].info))),
                         l, build),
                     l, 1, build, now),
              l, LayerLib(st.disk.layers[l].info), build)

RECURSIVE Layers(_, _, _, _)
\* "for layerName, layerDirectory in layerContents"
Layers(st, l, build, now) ==
    IF st.raised # "no" \/ l > Len(st.disk.layers) THEN st
    ELSE Layers(normalizeGlyphsDirectory(st, l, build, now), l + 1, build, now)

\* readImagesDirectory: glob("*.png"), which skips the names that begin with a dot
readImagesDirectory(package) ==
    { name \in package.images : EndsWith(name, <<".","p","n","g">>) /\ name[1] # "." }

\* normalizeGlyphsDirectoryNames when no directory is renamed: the layer
\* contents are written again as plistlib writes them
normalizeGlyphsDirectoryNames(st, build, now) ==
    IF st.disk.layercontents = <<>> \/ st.disk.layercontents[1].object = <<>> THEN st
    ELSE [st EXCEPT !.disk.layercontents =
                        <<WriteRawPlist(@[1], @[1].object, build, now)>>,
                    !.events = @ \cup {WriteEvent(layerContentsKey,
                                                  <<st.disk.layercontents[1].object, FALSE>>,
                                                  TRUE, <<PlistText(st.disk.layercontents[1])>>,
                                                  build)}]

\* imagesToPurge = availableImages - referencedImages; purgeImagesDirectory
Purged(st, available) ==
    IF st.raised # "no" THEN st
    ELSE [st EXCEPT !.available = available,
                    !.purged = available \ st.referenced,
                    !.disk.images = @ \ (available \ st.referenced)]

\* the layers of a format 3 package: lines 166-175 of normalizeUFO
normalizeLayers(st, build, now) ==
    Purged(IF st.disk.layercontents = <<>> THEN normalizeGlyphsDirectoryNames(st, build, now)
           ELSE Layers(normalizeGlyphsDirectoryNames(st, build, now), 1, build, now),
           readImagesDirectory(st.disk))

libName == <<"l","i","b",".","p","l","i","s","t">>

\* lines 187-190 of normalizeUFO: the times are stored in the font lib, the
\* lib is written as plistlib writes it, and then normalized
LibWritten(existing, fontLib, build) ==
    IF DataDiffers(<<fontLib, FALSE>>, TRUE, existing, build) THEN <<<<fontLib, FALSE>>>>
    ELSE existing

LibStored(st, existing, fontLib, build) ==
    [st EXCEPT !.disk.lib = <<[object |-> fontLib, normal |->
                                  IF DataDiffers(<<fontLib, TRUE>>, FALSE,
                                                 LibWritten(existing, fontLib, build), build)
                                  THEN TRUE ELSE LibWritten(existing, fontLib, build)[1][2]]>>,
               !.events = @ \cup
                   { WriteEvent(libName, <<fontLib, FALSE>>, TRUE, existing, build),
                     WriteEvent(libName, <<fontLib, TRUE>>, FALSE,
                                LibWritten(existing, fontLib, build), build) }]

FontLib(package) == IF package.lib = <<>> THEN <<>> ELSE package.lib[1].object

LibText(package) == IF package.lib = <<>> THEN <<>> ELSE <<PlistText(package.lib[1])>>

\* lines 187-190 of normalizeUFO on the state the top level files left
Finish(st, fontLib, build) ==
    LibStored(st, LibText(st.disk), storeModTimes(fontLib, st.modTimes), build)

\* lines 177-190 of normalizeUFO: the top level files and the font lib
TopLevel(st, fontLib, build, now) ==
    IF st.raised # "no" THEN st
    ELSE IF st.disk.layercontents = <<>>
    THEN Finish(normalizeMetaInfoPlist(st, build, now), fontLib, build)
    ELSE Finish(normalizeLayerContentsPlist(normalizeMetaInfoPlist(st, build, now), build, now),
                fontLib, build)

(* normalizeUFO.                                                           *)

\* metaInfo.get("formatVersion"): a value [type, text] of the property list
FormatVersion(package) ==
    IF "formatVersion" \in DOMAIN package.metainfo[1].object
    THEN package.metainfo[1].object.formatVersion ELSE [type |-> "None", text |-> <<>>]

PlistInteger(digits) == [type |-> "integer", text |-> digits]
PlistString(text) == [type |-> "string", text |-> text]
PlistReal(text) == [type |-> "real", text |-> text]
PlistArray == [type |-> "array", text |-> <<>>]

\* int(formatVersion) for the values without a sign: the digits, or the
\* exception; a real is cut at its point, a string must hold digits alone
\* apart from the white space around them, and an array is no number
IntOf(value) ==
    IF value.type = "integer" THEN [raised |-> "no", digits |-> StripZeros(value.text)]
    ELSE IF value.type = "real"
    THEN [raised |-> "no", digits |-> StripZeros(Split(value.text, ".")[1])]
    ELSE IF value.type = "array" THEN [raised |-> "TypeError", digits |-> <<>>]
    ELSE IF strip(value.text) # <<>> /\ IsDigits(strip(value.text))
    THEN [raised |-> "no", digits |-> StripZeros(strip(value.text))]
    ELSE [raised |-> "ValueError", digits |-> <<>>]

\* lines 161-175 of normalizeUFO
LayersPass(st, formatVersion, build, now) ==
    IF NumLess(formatVersion, <<"3">>)
    THEN IF st.disk.layers # <<>> THEN normalizeUFO1And2GlyphsDirectory(st, build, now) ELSE st
    ELSE normalizeLayers(st, build, now)

\* one call normalizeUFO(ufoPath) under a build of Python at a time of the
\* clock
normalizeUFO(package, build, now) ==
    IF package.metainfo = <<>> THEN Raise(NewRun(package, <<>>), "UFONormalizerError")
    ELSE IF FormatVersion(package).type = "None"
    THEN Raise(NewRun(package, <<>>), "UFONormalizerError")
    ELSE IF IntOf(FormatVersion(package)).raised = "ValueError"
    THEN Raise(NewRun(package, <<>>), "UFONormalizerError")
    ELSE IF IntOf(FormatVersion(package)).raised # "no"
    THEN Raise(NewRun(package, <<>>), IntOf(FormatVersion(package)).raised)
    ELSE IF NumLess(<<"3">>, IntOf(FormatVersion(package)).digits)
    THEN Raise(NewRun(package, <<>>), "UFONormalizerError")
    ELSE TopLevel(LayersPass(NewRun(package, readModTimes(FontLib(package))),
                             IntOf(FormatVersion(package)).digits, build, now),
                  FontLib(package), build, now)

(* The explored packages. The clock counts quarters of a second, as the     *)
(* modification times of a file system are finer than a tenth of a second. *)

MaxClock == 6
\* the time at which the explored packages are found
ClockStart == MaxClock - 2
MaxRuns == 2

MetaInfoFile(formatVersion, normal) ==
    [object |-> [formatVersion |-> formatVersion], normal |-> normal, mtime |-> ClockStart]

GlifFile(fileName, text, mtime) == [fileName |-> fileName, text |-> text, mtime |-> mtime]

\* a glyph file: the attributes of the glyph element and its children
GlifText(attrs, children) ==
    <<xmlDeclaration, BeginLine(0, "glyph", attrs)>> \o children \o <<EndLine(0, "glyph")>>

NameAttr == Attr(<<"n","a","m","e">>, <<"a">>)
FormatAttr(formatVersion) == Attr(<<"f","o","r","m","a","t">>, formatVersion)
AdvanceChild == <<SimpleLine(1, "advance", <<Attr(<<"w","i","d","t","h">>, <<"5","0","0">>)>>, None)>>
ImageChild(fileName) == <<ImageLine(<<Attr(<<"f","i","l","e","N","a","m","e">>, fileName)>>)>>

\* format 1 glyph files: one as the normalizer writes it, one that it rewrites,
\* one that it rejects
GlifTexts1 ==
    { GlifText(<<NameAttr, FormatAttr(<<"1">>)>>, AdvanceChild),
      GlifText(<<FormatAttr(<<"1">>), NameAttr>>, AdvanceChild),
      GlifText(<<FormatAttr(<<"1">>)>>, AdvanceChild) }

\* format 2 glyph files that refer to an image or to none
GlifTexts2 ==
    { GlifText(<<NameAttr, FormatAttr(<<"2">>)>>, ImageChild(<<"a",".","p","n","g">>)),
      GlifText(<<FormatAttr(<<"2">>), NameAttr>>, ImageChild(<<"b",".","p","n","g">>)),
      GlifText(<<NameAttr, FormatAttr(<<"2">>)>>, AdvanceChild) }

\* a format 2 glyph file that normalizeGLIF fails on: the glyph has no name
RejectedGlif2 == GlifText(<<FormatAttr(<<"2">>)>>, ImageChild(<<"c",".","p","n","g">>))

aGlif == <<"a",".","g","l","i","f">>
bGlif == <<"b",".","g","l","i","f">>

ContentsFile(fileNames) == [object |-> fileNames, normal |-> FALSE]

\* the font lib of a package that an earlier version of the normalizer left
StaleLib(mtimeA, mtimeB) ==
    [object |-> Put(<<>>, modTimeLibKey,
                    Join(<<<<"v","e","r","s","i","o","n",":"," ","0","a","0">>>>
                         \o ModTimeLines(Put(Put(<<>>, Location(<<"g","l","y","p","h","s">>, aGlif), ModTime(mtimeA)),
                                             Location(<<"g","l","y","p","h","s">>, bGlif), ModTime(mtimeB)),
                                         <<Location(<<"g","l","y","p","h","s">>, aGlif), Location(<<"g","l","y","p","h","s">>, bGlif)>>),
                         "\n")),
     normal |-> TRUE]

\* a format 1 or 2 package: the glyphs directory with two glyph files
Package12(metainfo, lib, textA, mtimeA, textB, mtimeB) ==
    [metainfo |-> metainfo, layercontents |-> <<>>, lib |-> lib,
     layers |-> <<[directory |-> <<"g","l","y","p","h","s">>, contents |-> ContentsFile(<<aGlif, bGlif>>),
                   info |-> <<>>,
                   glyphs |-> <<GlifFile(aGlif, textA, mtimeA), GlifFile(bGlif, textB, mtimeB)>>]>>,
     images |-> {}]

Packages12 ==
    { Package12(<<MetaInfoFile(PlistInteger(<<"2">>), normal)>>, lib, textA, mtimeA,
                GlifText(<<NameAttr, FormatAttr(<<"1">>)>>, AdvanceChild), ClockStart) :
          normal \in BOOLEAN, lib \in {<<>>, <<StaleLib(ClockStart, ClockStart)>>},
          textA \in GlifTexts1, mtimeA \in {ClockStart - 1, ClockStart} }

\* packages whose metainfo.plist is missing, or names no format the
\* normalizer knows, or names the format with a value other than an integer
OddMetaInfo ==
    { <<>>, <<[object |-> [creator |-> <<"o","r","g",".","r","o","b","o","f","a","b",".","u","f","o","L","i","b">>], normal |-> TRUE, mtime |-> ClockStart]>>,
      <<MetaInfoFile(PlistString(<<"x">>), TRUE)>>, <<MetaInfoFile(PlistInteger(<<"4">>), TRUE)>>,
      <<MetaInfoFile(PlistString(<<" ", "2">>), TRUE)>>, <<MetaInfoFile(PlistReal(<<"2",".","5">>), TRUE)>>,
      <<MetaInfoFile(PlistArray, TRUE)>> }

OddPackages ==
    { Package12(metainfo, <<>>, GlifText(<<FormatAttr(<<"1">>), NameAttr>>, AdvanceChild), ClockStart,
                GlifText(<<NameAttr, FormatAttr(<<"1">>)>>, AdvanceChild), ClockStart) :
          metainfo \in OddMetaInfo }

defaultLayer == <<"p","u","b","l","i","c",".","d","e","f","a","u","l","t">>
backgroundLayer == <<"b","a","c","k","g","r","o","u","n","d">>
backgroundDirectory == <<"g","l","y","p","h","s",".","b","a","c","k","g","r","o","u","n","d">>

LayerContentsFile ==
    [object |-> << <<defaultLayer, <<"g","l","y","p","h","s">>>>, <<backgroundLayer, backgroundDirectory>> >>,
     normal |-> FALSE, mtime |-> ClockStart]

\* the references a call of normalizeGLIF on the text puts under the file
ReferencesOf(fileName, text) ==
    IF normalizeGLIF(text).image = None THEN <<>>
    ELSE Put(<<>>, fileName, normalizeGLIF(text).image)

\* layerinfo.plist: missing, with a color, or with a lib that holds the
\* references and the times of the glyph file
LayerInfos(text, mtime) ==
    { <<>>,
      <<[object |-> [color |-> <<"1",",","0",",","0",",",".","5">>], normal |-> FALSE]>>,
      <<[object |-> [lib |-> storeImageReferences(
                                 storeModTimes(<<>>, Put(<<>>, aGlif, ModTime(mtime))),
                                 ReferencesOf(aGlif, text))],
         normal |-> TRUE]>> }

Layer(directory, info, text, mtime) ==
    [directory |-> directory, contents |-> ContentsFile(<<aGlif>>), info |-> info,
     glyphs |-> <<GlifFile(aGlif, text, mtime)>>]

ImageNames == { <<"a",".","p","n","g">>, <<"b",".","p","n","g">>, <<"c",".","p","n","g">>, <<".","d",".","p","n","g">>, <<"e",".","j","p","g">> }

\* a format 3 package: two layers with one glyph file each, and images
Package3(info, textA, textB) ==
    [metainfo |-> <<MetaInfoFile(PlistInteger(<<"3">>), TRUE)>>, layercontents |-> <<LayerContentsFile>>,
     lib |-> <<>>,
     layers |-> <<Layer(<<"g","l","y","p","h","s">>, info, textA, ClockStart),
                  Layer(backgroundDirectory, <<>>, textB, ClockStart)>>,
     images |-> ImageNames]

Packages3With(textA) ==
    { Package3(info, textA, textB) :
          info \in LayerInfos(textA, ClockStart),
          textB \in {RejectedGlif2} \cup
                    (GlifTexts2 \ {GlifText(<<NameAttr, FormatAttr(<<"2">>)>>, ImageChild(<<"a",".","p","n","g">>))}) }

Packages3 == UNION { Packages3With(textA) : textA \in GlifTexts2 }

NoRun == [raised |-> "not run"]

UfoInit ==
    /\ call = NoCall /\ ret = Pending
    /\ RenameIdle
    /\ GlifIdle
    /\ ColorIdle
    /\ PureIdle
    /\ WriterIdle
    /\ python \in {2, 3}
    /\ clock = ClockStart
    /\ ufo \in Packages12 \cup OddPackages \cup Packages3
    /\ passes = 0
    /\ edits = 0
    /\ lastRun = NoRun

\* one call of normalizeUFO on the package
NormalizeUFO ==
    /\ passes < MaxRuns
    /\ lastRun' = normalizeUFO(ufo, python, clock)
    /\ ufo' = lastRun'.disk
    /\ passes' = passes + 1
    /\ UNCHANGED <<python, clock, edits, nameVars, renameVars, glifVars, colorVars, pureVars, writerVars>>

\* time passes
Tick ==
    /\ clock < MaxClock
    /\ clock' = clock + 1
    /\ UNCHANGED <<python, ufo, passes, edits, lastRun, nameVars, renameVars, glifVars, colorVars, pureVars, writerVars>>

\* os.utime by another program: a glyph file gets another modification time,
\* as when it is restored from a backup; the explored programs change one
\* file after a call of the normalizer
SetModTime ==
    /\ passes < MaxRuns
    /\ edits < passes
    /\ \E l \in 1..Len(ufo.layers) : \E i \in 1..Len(ufo.layers[l].glyphs) :
           \E mtime \in {ClockStart - 1, clock} :
               /\ mtime # ufo.layers[l].glyphs[i].mtime
               /\ ufo' = [ufo EXCEPT !.layers[l].glyphs[i].mtime = mtime]
    /\ edits' = edits + 1
    /\ UNCHANGED <<python, clock, passes, lastRun, nameVars, renameVars, glifVars, colorVars, pureVars, writerVars>>

\* an editor saves a glyph file with another text, at a time other than the
\* one the file has
SaveGlyph ==
    /\ passes < MaxRuns
    /\ edits < passes
    /\ \E l \in 1..Len(ufo.layers) : \E i \in 1..Len(ufo.layers[l].glyphs) :
           \E text \in (IF ufo.layercontents = <<>> THEN GlifTexts1 ELSE GlifTexts2) :
               /\ text # ufo.layers[l].glyphs[i].text
               /\ clock # ufo.layers[l].glyphs[i].mtime
               /\ ufo' = [ufo EXCEPT !.layers[l].glyphs[i] =
                                         GlifFile(@.fileName, text, clock)]
    /\ edits' = edits + 1
    /\ UNCHANGED <<python, clock, passes, lastRun, nameVars, renameVars, glifVars, colorVars, pureVars, writerVars>>

UfoNext == NormalizeUFO \/ Tick \/ SetModTime \/ SaveGlyph

UfoSpec == UfoInit /\ [][UfoNext]_vars

---------------------------------------------------------------------------
(* Claims about the glyph pass, checked under GlifSpec.                    *)

(* C1: for any valid glyph record, normalizing the normalizer's own output *)
(* gives byte-identical output: a second pass changes nothing.             *)
C1_Idempotent ==
    (gpc = "ready" /\ valid /\ Len(written) >= 1 /\ written[1].raised = "no") =>
        \A i \in 2..Len(written) : written[i] = written[1]

---------------------------------------------------------------------------
(* Claims about the two-pass rename, checked under RenameSpec.             *)

\* the names the plist gave to the entries when the routine started
OldNames == { contents0[i][2] : i \in 1..Len(contents0) }

\* the names of the form of the temporary names that the directory began with
TempLike == { n \in DOMAIN fs0 : \E i \in 0..Len(contents0) : n = tempName(i) }

(* C2: for every mapping of old names to new names, chains and cycles      *)
(* included, no content of a listed entry is lost to an overwrite in any   *)
(* state of the two passes, and after both passes the content that was at  *)
(* each entry's old name is at that entry's new name.  Stated for the      *)
(* directories that hold the listed entries only, none of them under a     *)
(* name of the form of the temporary names, and for non-empty user names.  *)
C2_RenameSafety ==
    (/\ kind # "none" /\ DOMAIN fs0 = OldNames /\ TempLike = {}
     /\ \A i \in 1..Len(contents0) : contents0[i][1] # <<>>) =>
        /\ \A n \in OldNames : fs0[n].id \notin lost
        /\ pc \in {"write", "done"} =>
              \A i \in 1..Len(newMapping) :
                  /\ newMapping[i][2] \in DOMAIN fs
                  /\ fs[newMapping[i][2]] = fs0[oldMapping(contents0, newMapping[i][1])]
        /\ pc # "raised"

(* C3: every entry of the directory that is not an old name of the mapping *)
(* keeps its name and its content through the renames, whatever new names  *)
(* and temporary names are used.                                           *)
C3_UnrelatedUntouched ==
    kind # "none" =>
        \A n \in DOMAIN fs0 \ OldNames : n \in DOMAIN fs /\ fs[n] = fs0[n]

(* C4: every temporary name used in the first pass differs from every      *)
(* other temporary name of the pass and from every real name of the        *)
(* directory: every old name, every new name and every other entry.        *)
C4_TempNamesDistinct ==
    \A i \in 1..Len(temps) :
        /\ \A j \in 1..Len(temps) : i # j => temps[i] # temps[j]
        /\ temps[i] \notin DOMAIN fs0
        /\ \A k \in 1..Len(newMapping) : temps[i] # newMapping[k][2]

(* C5: the file names given to the distinct glyph names of a layer, and    *)
(* the directory names given to the distinct layer names of a package,     *)
(* are pairwise distinct under case-insensitive comparison.                *)
C5_NamesUnique ==
    \A i, j \in 1..Len(newMapping) :
        i # j => Lower(newMapping[i][2]) # Lower(newMapping[j][2])

---------------------------------------------------------------------------
(* Claims about the name mapper, checked under NameSpec.                   *)

NameDone(fn) == call.fn = fn /\ ret # Pending

\* the part of a returned name between the prefix and the suffix
BodyOf(name) == SubSeq(name, Len(call.prefix) + 1, Len(name) - Len(call.suffix))

\* the characters left for the name once the prefix and the suffix are placed
Room == maxFileNameLength - Len(call.prefix) - Len(call.suffix)

(* C6: whatever the input's length, the name userNameToFileName returns,   *)
(* directly or through collision tier 1, is at most 255 characters long    *)
(* with its prefix and suffix. Stated for the prefixes and suffixes that    *)
(* leave room for the 15-digit counter.                                    *)
C6_NameLength ==
    (/\ NameDone("userNameToFileName")
     /\ ret.outcome = "ok" /\ ret.tier \in {0, 1}
     /\ Room >= clash1CounterWidth)
        => Len(ret.name) <= maxFileNameLength

ClaimedReserved ==
    { <<"c","o","n">>, <<"p","r","n">>, <<"a","u","x">>,
      <<"c","l","o","c","k","$">>, <<"n","u","l">>,
      <<"c","o","m","1">>, <<"c","o","m","2">>, <<"c","o","m","3">>,
      <<"c","o","m","4">>, <<"l","p","t","1">>, <<"l","p","t","2">>,
      <<"l","p","t","3">> }

PartsOf(body) == LET parts == Split(body, ".") IN { parts[i] : i \in 1..Len(parts) }

(* C7: no dot-separated segment of the name body that userNameToFileName   *)
(* returns, from any tier, is a reserved system name in any letter case.   *)
C7_NoReservedPart ==
    (NameDone("userNameToFileName") /\ ret.outcome = "ok")
        => \A part \in PartsOf(BodyOf(ret.name)) : Lower(part) \notin ClaimedReserved

\* C7's case: a reserved segment of the input came out with its leading "_",
\* in a name that went through collision tier 1
C7_Witness ==
    /\ NameDone("userNameToFileName") /\ ret.outcome = "ok" /\ ret.tier = 1
    /\ call.userName = <<"c","o","n",".","a">>
    /\ \E part \in PartsOf(BodyOf(ret.name)) : part = <<"_","c","o","n">>

ClaimedIllegal ==
    {"\"", "*", "+", "/", ":", "<", ">", "?", "[", "\\", "]", "|", "\\x00", "\\x7f"}
        \cup controlCharacters

\* the transliteration of one input string, character by character
Transliterated(userName, prefix) ==
    LET piece(i) ==
            IF i = 1 /\ prefix = <<>> /\ userName[i] = "." THEN <<"_">>
            ELSE IF userName[i] \in ClaimedIllegal THEN <<"_">>
            ELSE IF userName[i] \in DOMAIN lowerOf THEN <<userName[i], "_">>
            ELSE <<userName[i]>>
    IN Concat([i \in 1..Len(userName) |-> piece(i)])

MarkersIn(body, exempt) ==
    \A i \in 1..Len(body) :
        body[i] \in DOMAIN lowerOf =>
            \/ i < Len(body) /\ body[i + 1] = "_"
            \/ i \in exempt

C9_Name ==
    IF Len(call.userName) + clash1CounterWidth > Room
    THEN SliceTo(call.userName, IF Room - clash1CounterWidth > 0
                                THEN Room - clash1CounterWidth ELSE 0)
    ELSE call.userName

C9_Composite(k) == call.prefix \o C9_Name \o ZFill(k, 15) \o call.suffix
C9_Collides(k) == Contains(call.existing, Lower(C9_Composite(k)))

\* The 15-digit counter space has 10^15 - 1 values; these are its first ones
\* and its last three.
C9_Counters ==
    { Small(k) : k \in 1..(MaxListed + 1) }
        \cup { NinesLess(Rep("9", 15), k) : k \in 0..2 }

(* C9: handleClash1 returns prefix + name + k (15 digits, zero-padded) +   *)
(* suffix for the smallest k >= 1 of the 15-digit counter space whose      *)
(* lowercased composite is not in the existing set, and goes on to tier 2  *)
(* only when every value of that space collides.                           *)
C9_Tier1 ==
    (NameDone("handleClash1") /\ Room >= clash1CounterWidth) =>
        /\ ret.tier = 1 =>
            \E k \in C9_Counters :
                /\ ret.name = C9_Composite(k)
                /\ ~C9_Collides(k)
                /\ \A j \in C9_Counters : NumLess(j, k) => C9_Collides(j)
        /\ ret.tier # 1 => \A k \in C9_Counters : C9_Collides(k)

C10_Composite(n) == call.prefix \o n \o call.suffix
C10_Collides(n) == Contains(call.existing, Lower(C10_Composite(n)))

\* the integers of at most Room digits: the first ones and the last three
C10_Numbers ==
    IF Room <= 0 THEN {}
    ELSE { n \in { Small(k) : k \in 1..(MaxListed + 1) } : Len(n) <= Room }
            \cup (IF Room = 1 THEN { Small(9 - k) : k \in 0..2 }
                  ELSE { NinesLess(Rep("9", Room), k) : k \in 0..2 })

(* C10: handleClash2 returns prefix + n + suffix for the smallest positive *)
(* integer n of at most 255 - len(prefix) - len(suffix) digits whose       *)
(* composite is not in the existing set; it fails only when every such     *)
(* integer collides, and then with the normalizer's name-resolution error. *)
(* Stated for the prefixes and suffixes that leave room for a digit.        *)
C10_Tier2 ==
    (NameDone("handleClash2") /\ Room >= 1) =>
        /\ ret.outcome = "ok" =>
            \E n \in C10_Numbers :
                /\ ret.name = C10_Composite(n)
                /\ ~C10_Collides(n)
                /\ \A m \in C10_Numbers : NumLess(m, n) => C10_Collides(m)
        /\ ret.outcome # "ok" =>
            /\ ret.outcome = "NameTranslationError"
            /\ \A n \in C10_Numbers : C10_Collides(n)

---------------------------------------------------------------------------
(* Further claims about the glyph pass, checked under GlifSpec.            *)

(* C16: normalizeGLIF raises only when the format attribute of the glyph   *)
(* element is missing or is not an integer; every other malformed part of  *)
(* a file that parses is left out of the output without raising.           *)
C16_FailsOnlyOnFormat ==
    \A i \in 1..Len(written) :
        written[i].raised \notin {"no", "ParseError"} =>
            written[i].raised \in {"UFONormalizerError", "ValueError"}

\* the children of the outline element of a glyph file
C18_Children(text) ==
    IF LastElement(fromstring(text), "outline") = <<>> THEN <<>>
    ELSE LastElement(fromstring(text), "outline")[1].children

\* a contour whose only point is a move point
C18_MoveOnly(e) ==
    /\ e.tag = "contour"
    /\ Len(PointElements(e)) = 1
    /\ AttribGet(PointElements(e)[1], <<"t","y","p","e">>, None) = <<"m","o","v","e">>

\* what tells an entry of an outline from the others: its tag, its base and
\* the types and names of its points
C18_Mark(e) ==
    << e.tag, AttribGet(e, <<"b","a","s","e">>, None),
       [k \in 1..Len(PointElements(e)) |->
           << AttribGet(PointElements(e)[k], <<"t","y","p","e">>, None),
              AttribGet(PointElements(e)[k], <<"n","a","m","e">>, None) >>] >>

C18_Marks(entries) == [k \in 1..Len(entries) |-> C18_Mark(entries[k])]

\* a call that read a format 1 file and wrote a file that parses
C18_Format1(i) ==
    /\ WellFormed(read[i])
    /\ written[i].raised = "no"
    /\ WellFormed(written[i].text)
    /\ AttribGet(fromstring(read[i]), <<"f","o","r","m","a","t">>, None) = <<"1">>

C18_Reordered(inner, outer) ==
    /\ \A j \in 1..Len(outer) : \A k \in (j + 1)..Len(outer) :
           C18_MoveOnly(outer[j]) => C18_MoveOnly(outer[k])
    /\ Len(outer) = Len(inner) =>
           C18_Marks(outer) =
               C18_Marks(SelectSeq(inner, LAMBDA e : ~C18_MoveOnly(e)))
                   \o C18_Marks(SelectSeq(inner, C18_MoveOnly))

(* C18: in a format 1 outline the contours that hold a single move point   *)
(* are written after all the other contours and the components, and the    *)
(* entries of each of the two groups keep the order they had in the file.  *)
C18_MoveContoursLast ==
    \A i \in 1..Len(written) :
        C18_Format1(i) => C18_Reordered(C18_Children(read[i]), C18_Children(written[i].text))

\* a format 1 file with two single move contours and two other entries, one
\* of the move contours ahead of another entry, has been normalized
C18_Witness ==
    /\ Len(written) >= 1
    /\ C18_Format1(1)
    /\ Len(C18_Children(written[1].text)) = 4
    /\ Len(C18_Children(read[1])) = 4
    /\ C18_MoveOnly(C18_Children(read[1])[1])
    /\ C18_MoveOnly(C18_Children(read[1])[3])
    /\ ~C18_MoveOnly(C18_Children(read[1])[2])
    /\ ~C18_MoveOnly(C18_Children(read[1])[4])
    /\ C18_Children(read[1])[1] # C18_Children(read[1])[3]
    /\ C18_Children(read[1])[2].tag # C18_Children(read[1])[4].tag

\* the place of each tag in the order normalizeGLIF writes the children in
C19_Order == <<"unicode", "advance", "image", "outline", "anchor", "guideline", "lib", "note">>
C19_Rank(tag) == CHOOSE k \in 1..Len(C19_Order) : C19_Order[k] = tag

C19_Tags(text) ==
    [k \in 1..Len(fromstring(text).children) |-> fromstring(text).children[k].tag]

\* a call that read a file that parses and wrote a file that parses
C19_Written(i) ==
    /\ WellFormed(read[i])
    /\ written[i].raised = "no"
    /\ WellFormed(written[i].text)

C19_InOrder(version, tags) ==
    /\ \A k \in 1..Len(tags) : \E r \in 1..Len(C19_Order) : C19_Order[r] = tags[k]
    /\ \A j \in 1..Len(tags) : \A k \in (j + 1)..Len(tags) :
           C19_Rank(tags[j]) <= C19_Rank(tags[k])
    /\ \A k \in 1..Len(tags) :
           tags[k] \in {"image", "anchor", "guideline"} => NumGeq(version, <<"2">>)

(* C19: the children of the written glyph element come in the order       *)
(* unicode, advance, image, outline, anchor, guideline, lib, note whatever *)
(* their order in the file read, and image, anchor and guideline elements  *)
(* are written only when the format is 2 or more.                          *)
C19_ChildOrder ==
    \A i \in 1..Len(written) :
        C19_Written(i) =>
            C19_InOrder(AttribGet(fromstring(read[i]), <<"f","o","r","m","a","t">>, None),
                        C19_Tags(written[i].text))

\* a format 2 file that holds the eight kinds of children with the note
\* first and the unicode last has been written with all eight kinds
C19_Witness ==
    /\ Len(written) >= 1
    /\ C19_Written(1)
    /\ Len(C19_Tags(read[1])) >= 8
    /\ C19_Tags(read[1])[1] = "note"
    /\ C19_Tags(read[1])[Len(C19_Tags(read[1]))] = "unicode"
    /\ \A r \in 1..Len(C19_Order) :
           \E k \in 1..Len(C19_Tags(written[1].text)) : C19_Tags(written[1].text)[k] = C19_Order[r]

(* C20: attribute values are written with & < > and " escaped and element  *)
(* texts with & < > escaped, so the file a call writes is well-formed and  *)
(* parses back.                                                            *)
C20_WrittenParses ==
    \A i \in 1..Len(written) :
        (WellFormed(read[i]) /\ written[i].raised = "no") => WellFormed(written[i].text)

---------------------------------------------------------------------------
(* The claim about the color strings, checked under ColorSpec.             *)

\* a field that is a number of the closed range 0 to 1
C17_InRange(field) ==
    /\ IsFloatText(field)
    /\ float(field).int \notin {nan, inf}
    /\ ~FloatNegative(float(field))
    /\ ~FloatAboveOne(float(field))

C17_Valid(fields) == Len(fields) = 4 /\ \A k \in 1..Len(fields) : C17_InRange(fields[k])

C17_Canonical(fields) ==
    Join([k \in 1..Len(fields) |-> xmlConvertFloat(float(fields[k]))], ",")

(* C17: _normalizeColorString returns a value exactly when the string is   *)
(* four comma-separated fields that are each a number from 0 to 1, and the *)
(* value is the four numbers in canonical form joined by commas; for any   *)
(* other string it returns None.                                           *)
C17_ColorValue ==
    colorResult # NotCalled =>
        /\ colorResult # None <=> C17_Valid(Split(colorString, ","))
        /\ C17_Valid(Split(colorString, ",")) => colorResult = C17_Canonical(Split(colorString, ","))

---------------------------------------------------------------------------
(* Claims about the package pass, checked under UfoSpec.                   *)

\* the files a call decides on with the time they had when the call began:
\* the log key, the lib that holds the times, the name in it, and the time
C11_LayerFiles(package, l) ==
    { [key |-> Location(package.layers[l].directory, package.layers[l].glyphs[i].fileName),
       lib |-> IF package.layercontents = <<>> THEN FontLib(package)
               ELSE LayerLib(package.layers[l].info),
       entry |-> IF package.layercontents = <<>>
                 THEN Location(package.layers[l].directory, package.layers[l].glyphs[i].fileName)
                 ELSE package.layers[l].glyphs[i].fileName,
       mtime |-> package.layers[l].glyphs[i].mtime] :
          i \in 1..Len(package.layers[l].glyphs) }

C11_Files(package) ==
    UNION { C11_LayerFiles(package, l) : l \in 1..Len(package.layers) }
    \cup { [key |-> metaInfoKey, lib |-> FontLib(package), entry |-> metaInfoKey,
            mtime |-> package.metainfo[1].mtime] }

C11_Lines(lib) ==
    IF modTimeLibKey \in DOMAIN lib THEN Split(lib[modTimeLibKey], "\n") ELSE <<>>

\* the cache is of another version, or there is none
C11_Absent(lib) ==
    C11_Lines(lib) = <<>> \/ C11_Lines(lib)[1] # <<"v","e","r","s","i","o","n",":"," ">> \o normalizerVersion

\* the times the cache holds for a name
C11_Times(lib, entry) ==
    { SubSeq(C11_Lines(lib)[i], 1, Len(C11_Lines(lib)[i]) - Len(entry) - 1) :
          i \in { j \in 2..Len(C11_Lines(lib)) :
                      EndsWith(C11_Lines(lib)[j], <<" ">> \o entry) } }

C11_Needed(f) ==
    \/ C11_Absent(f.lib)
    \/ C11_Times(f.lib, f.entry) = {}
    \/ \E stored \in C11_Times(f.lib, f.entry) : ~FloatEq(float(stored), ModTime(f.mtime))

\* C11: a call of normalizeUFO processes a glyph file or metainfo.plist when
\* the cache it loaded is of another version, or holds no entry for the file,
\* or holds a time that differs from the file's time, and skips the file in
\* every other case
C11_ReprocessingDecision ==
    (passes > 0 /\ lastRun.before.metainfo # <<>>) =>
        /\ lastRun.refreshed \cap lastRun.skipped = {}
        /\ \A f \in C11_Files(lastRun.before) :
               /\ lastRun.raised = "no" => f.key \in lastRun.refreshed \cup lastRun.skipped
               /\ f.key \in lastRun.refreshed => C11_Needed(f)
               /\ f.key \in lastRun.skipped => ~C11_Needed(f)

\* the second call processes a file whose time was set back to one older than
\* the stored one, and skips another file
C11_Witness ==
    /\ passes = 2
    /\ lastRun.raised = "no"
    /\ \E f \in C11_Files(lastRun.before) :
           /\ f.key \in lastRun.refreshed
           /\ ~C11_Absent(f.lib)
           /\ C11_Times(f.lib, f.entry) = {<<"1",".","0">>}
           /\ f.mtime = ClockStart - 1
    /\ \E f \in C11_Files(lastRun.before) : f.key \in lastRun.skipped

\* C12: after a call of normalizeUFO that did not raise, readModTimes on the
\* font lib the call stored gives back, for every path, the time the call
\* recorded for it
C12_CacheRoundTrip ==
    (passes > 0 /\ lastRun.raised = "no") =>
        /\ DOMAIN readModTimes(FontLib(lastRun.disk)) = DOMAIN lastRun.modTimes
        /\ \A key \in DOMAIN lastRun.modTimes :
               FloatEq(readModTimes(FontLib(lastRun.disk))[key], lastRun.modTimes[key])

\* the images the glyph files of a package refer to
C13_Live(package) ==
    UNION { { line.attrs[a][2] : a \in { b \in 1..Len(line.attrs) : line.attrs[b][1] = <<"f","i","l","e","N","a","m","e">> } } :
                line \in UNION { UNION { { g.text[k] : k \in { j \in 1..Len(g.text) : g.text[j].tag = "image" } } :
                                             g \in { layer.glyphs[i] : i \in 1..Len(layer.glyphs) } } :
                                     layer \in { package.layers[l] : l \in 1..Len(package.layers) } } }

C13_Format3(run) ==
    /\ run.before.metainfo # <<>>
    /\ FormatVersion(run.before) = PlistInteger(<<"3">>)

\* C13: a call of normalizeUFO on a format 3 package that does not raise
\* deletes exactly the available images that no glyph file of any layer
\* refers to, and a call that raises in a layer deletes none
C13_GarbageImages ==
    (passes > 0 /\ C13_Format3(lastRun)) =>
        IF lastRun.raised = "no"
        THEN /\ lastRun.available = { name \in lastRun.before.images : EndsWith(name, <<".","p","n","g">>) /\ name[1] # "." }
             /\ lastRun.purged = lastRun.available \ C13_Live(lastRun.before)
             /\ lastRun.disk.images = lastRun.before.images \ lastRun.purged
             /\ C13_Live(lastRun.before) \cap lastRun.before.images \subseteq lastRun.disk.images
        ELSE lastRun.disk.images = lastRun.before.images

\* the first layer refers to a.png and the second to none or b.png, and the
\* call deleted c.png and kept a.png
C13_Witness ==
    /\ passes > 0
    /\ C13_Format3(lastRun)
    /\ lastRun.raised = "no"
    /\ <<"a",".","p","n","g">> \in C13_Live(lastRun.before)
    /\ <<"b",".","p","n","g">> \in C13_Live(lastRun.before)
    /\ lastRun.purged = {<<"c",".","p","n","g">>}
    /\ <<"a",".","p","n","g">> \in lastRun.disk.images

\* C14: after a call of normalizeUFO on a format 3 package that did not
\* raise, the lib of every layer's layerinfo.plist holds the image references
\* and the times that normalizeGlyphsDirectory stored for the layer
C14_LayerStatePersisted ==
    (passes > 0 /\ C13_Format3(lastRun) /\ lastRun.raised = "no") =>
        \A l \in 1..Len(lastRun.disk.layers) :
            /\ readImageReferences(LayerLib(lastRun.disk.layers[l].info)) # <<>>
            /\ LayerLib(lastRun.disk.layers[l].info) = lastRun.stored[l]

\* C15: every call of subpathWriteFile in a call of normalizeUFO opens the
\* file for writing exactly when the file is missing or holds another content
C15_SkipIfUnchanged ==
    passes > 0 => \A event \in lastRun.events : event.wrote <=> ~event.same

\* the format version is an integer: an integer of the property list, or a
\* string that holds the digits of one
C30_IsInteger(value) ==
    \/ value.type = "integer"
    \/ value.type = "string" /\ strip(value.text) # <<>> /\ IsDigits(strip(value.text))

C30_Fatal(package) ==
    \/ package.metainfo = <<>>
    \/ FormatVersion(package).type = "None"
    \/ ~C30_IsInteger(FormatVersion(package))
    \/ NumLess(<<"3">>, StripZeros(strip(FormatVersion(package).text)))

\* C30: a call of normalizeUFO on a package whose metainfo.plist is missing,
\* or has no formatVersion, or one that is not an integer, or one above 3,
\* raises UFONormalizerError and leaves every file of the package as it was
C30_FatalLeavesUntouched ==
    (passes > 0 /\ C30_Fatal(lastRun.before)) =>
        /\ lastRun.raised = "UFONormalizerError"
        /\ lastRun.disk = lastRun.before
        /\ lastRun.events = {}

---------------------------------------------------------------------------
(* xmlConvertFloat as a function of its argument.                          *)

FloatSigns == { <<>>, <<"-">> }
FloatWholes == { <<"0">>, <<"1">>, <<"1","2">>, <<"9","9","9">> }

\* the places of the explored values; none is halfway between two roundings
FloatPlaces ==
    { <<>>, <<"0">>, <<"5">>, <<"2","5">>, <<"1","0">>, <<"0","1","0","0">>, <<"0","0","0","0","0","0","0","0","0","1">>, <<"1","2","3","4","5","6","7","8","9","1">>,
      <<"0","0","0","0","0","0","0","0","0","0","1">>, <<"0","0","0","0","0","0","0","0","0","0","4">>, <<"0","0","0","0","0","0","0","0","0","0","6">>, <<"0","0","0","0","0","0","0","0","0","0","9">>,
      <<"0","0","0","0","0","0","0","0","0","0","4","9">>, <<"0","0","0","0","0","0","0","0","0","0","5","1">>, <<"9","9","9","9","9","9","9","9","9","9","4">>, <<"9","9","9","9","9","9","9","9","9","9","6">>,
      <<"1","2","3","4","5","6","7","8","9","1","4">>, <<"1","2","3","4","5","6","7","8","9","1","6">> }

FloatInit ==
    /\ call = NoCall /\ ret = Pending
    /\ RenameIdle
    /\ GlifIdle
    /\ ColorIdle
    /\ UfoIdle
    /\ WriterIdle
    /\ operand \in { float(sign \o whole \o <<".">> \o places) :
                        sign \in FloatSigns, whole \in FloatWholes, places \in FloatPlaces }
    /\ returned = NotCalled

\* one call of xmlConvertFloat
XmlConvertFloat ==
    /\ returned = NotCalled
    /\ returned' = xmlConvertFloat(operand)
    /\ UNCHANGED <<operand, nameVars, renameVars, glifVars, colorVars, ufoVars, writerVars>>

FloatNext == XmlConvertFloat

FloatSpec == FloatInit /\ [][FloatNext]_vars

---------------------------------------------------------------------------
(* The claim about xmlConvertFloat, checked under FloatSpec.               *)

\* a value in units of the tenth place, the further places cut
C22_Units(f) == StripZeros(f.int \o SubSeq(f.frac \o Rep("0", floatPlaces), 1, floatPlaces))

\* the value rounded to the tenth place, in units of that place
C22_Rounded(f) ==
    IF Len(f.frac) > floatPlaces /\ f.frac[floatPlaces + 1] \in {"5", "6", "7", "8", "9"}
    THEN NumInc(C22_Units(f)) ELSE C22_Units(f)

C22_Places(text) ==
    IF \E i \in 1..Len(text) : text[i] = "." THEN Split(text, ".")[2] ELSE <<>>

\* C22: xmlConvertFloat gives the value rounded to ten places, without
\* zeros at the end of the places and without a point at the end, as an
\* integer without zeros in front when no place remains, with a sign only
\* when the rounded value is not zero, and gives the same text for its own
\* output
C22_NumericFormatting ==
    returned # NotCalled =>
        /\ IsFloatText(returned)
        /\ returned[Len(returned)] # "."
        /\ Len(C22_Places(returned)) <= floatPlaces
        /\ C22_Places(returned) # <<>> => returned[Len(returned)] # "0"
        /\ C22_Units(float(returned)) = C22_Rounded(operand)
        /\ returned[1] = "-" <=> (operand.neg /\ C22_Rounded(operand) # <<"0">>)
        /\ Split(Unsigned(returned), ".")[1] = StripZeros(Split(Unsigned(returned), ".")[1])
        /\ xmlConvertFloat(float(returned)) = returned

\* a negative value below half of the tenth place is written as 0
C22_Witness ==
    /\ operand = float(<<"-","0",".","0","0","0","0","0","0","0","0","0","0","4">>)
    /\ returned = <<"0">>

---------------------------------------------------------------------------
(* Claims about the lib, the outline and the advance of a glyph file,      *)
(* checked under GlifSpec.                                                 *)

\* a call that read a file that parses and wrote one that parses
C26_Wrote(i) ==
    /\ WellFormed(read[i])
    /\ written[i].raised = "no"
    /\ WellFormed(written[i].text)

\* the mapping of the lib element of a file once its mark color is
\* canonicalized; a file without a lib, or with an empty lib element, has none
C26_Canonical(text) ==
    IF LastElement(fromstring(text), "lib") = <<>> THEN NoAttrs
    ELSE IF Len(LastElement(fromstring(text), "lib")[1].children) = 0 THEN NoAttrs
    ELSE GlifLibObject(LastElement(fromstring(text), "lib")[1])

(* C26: the written file has a lib element exactly when the mapping of the *)
(* lib that was read, after the canonicalization of its mark color, is not *)
(* empty; a lib whose only key is a mark color that does not canonicalize  *)
(* leaves no lib element.                                                  *)
C26_LibSuppression ==
    \A i \in 1..Len(written) :
        C26_Wrote(i) =>
            (LastElement(fromstring(written[i].text), "lib") # <<>>
                <=> DOMAIN C26_Canonical(read[i]) # {})

\* a call that read a format 2 file that parses
C23_Format2(i) ==
    /\ WellFormed(read[i])
    /\ AttribGet(fromstring(read[i]), <<"f","o","r","m","a","t">>, None) = <<"2">>

\* whether the format 1 validation keeps an entry of an outline
C23_KeptByFormat1(e) ==
    IF e.tag = "contour" THEN normalizeGlifContourFormat1(e) # <<>>
    ELSE IF e.tag = "component" THEN normalizeGlifComponentFormat1(e) # <<>>
    ELSE FALSE

C23_Tags(entries) == [k \in 1..Len(entries) |-> entries[k].tag]

(* C23: the format 2 normalizer keeps a contour or a component exactly     *)
(* when the format 1 validation keeps it, whatever its attributes: a call  *)
(* on a format 2 file does not raise on an identifier, and the outline it  *)
(* writes holds the entries that the format 1 validation keeps, in order.  *)
C23_SameValidation ==
    \A i \in 1..Len(written) :
        C23_Format2(i) =>
            /\ written[i].raised # "TypeError"
            /\ (written[i].raised = "no" /\ WellFormed(written[i].text)) =>
                   C23_Tags(C18_Children(written[i].text)) =
                       C23_Tags(SelectSeq(C18_Children(read[i]), C23_KeptByFormat1))

\* a point with an x and a y that parse and a type that is known
C24_ValidPoint(p) ==
    /\ ~Falsy(AttribGet(p, <<"x">>, None)) /\ IsFloatText(AttribGet(p, <<"x">>, None))
    /\ ~Falsy(AttribGet(p, <<"y">>, None)) /\ IsFloatText(AttribGet(p, <<"y">>, None))
    /\ AttribGet(p, <<"t","y","p","e">>, <<"o","f","f","c","u","r","v","e">>) \in pointTypes

C24_Points(e) == SelectSeq(e.children, LAMBDA c : c.tag = "point")
C24_Others(e) == SelectSeq(e.children, LAMBDA c : c.tag # "point")

\* a contour with a point, all of whose points are valid
C24_ValidContour(e) ==
    /\ e.tag = "contour"
    /\ C24_Points(e) # <<>>
    /\ \A k \in 1..Len(C24_Points(e)) : C24_ValidPoint(C24_Points(e)[k])

\* the same, and no child other than a point
C24_StrictContour(e) == C24_ValidContour(e) /\ C24_Others(e) = <<>>

C24_Contours(entries) == SelectSeq(entries, LAMBDA e : e.tag = "contour")

(* C24: a contour of a format 1 file is written exactly when it holds a    *)
(* point and each of its points has coordinates that parse and a known     *)
(* type: a point of unknown type leaves the whole contour out, while a     *)
(* child that is not a point is skipped and the contour is kept.           *)
C24_UnknownTypeInvalidates ==
    \A i \in 1..Len(written) :
        C18_Format1(i) =>
            Len(C24_Contours(C18_Children(written[i].text))) =
                Len(SelectSeq(C18_Children(read[i]), C24_ValidContour))

\* a format 1 call that read a contour with a child that is not a point next
\* to valid points, and one that read a contour with a point of unknown type
C24_Witness ==
    /\ \E i \in 1..Len(written) :
          /\ C18_Format1(i)
          /\ \E k \in 1..Len(C18_Children(read[i])) :
                /\ C24_ValidContour(C18_Children(read[i])[k])
                /\ C24_Others(C18_Children(read[i])[k]) # <<>>
    /\ \E i \in 1..Len(written) :
          /\ C18_Format1(i)
          /\ \E k \in 1..Len(C18_Children(read[i])) :
                LET e == C18_Children(read[i])[k]
                IN /\ e.tag = "contour"
                   /\ \E n \in 1..Len(C24_Points(e)) :
                         AttribGet(C24_Points(e)[n], <<"t","y","p","e">>, <<"o","f","f","c","u","r","v","e">>) \notin pointTypes
                   /\ \E n \in 1..Len(C24_Points(e)) : C24_ValidPoint(C24_Points(e)[n])

\* C24 as stated: a child that is not a point leaves the contour out as well
C24_UnknownChildInvalidates ==
    \A i \in 1..Len(written) :
        C18_Format1(i) =>
            Len(C24_Contours(C18_Children(written[i].text))) =
                Len(SelectSeq(C18_Children(read[i]), C24_StrictContour))

\* the width and the height of the advance of a file, "0" when not given
C25_Given(text, key) ==
    IF LastElement(fromstring(text), "advance") = <<>> THEN <<"0">>
    ELSE AttribGet(LastElement(fromstring(text), "advance")[1], key, <<"0">>)

\* a value that parses as a real other than zero
C25_NonZero(value) == IsFloatText(value) /\ ~FloatIsZero(float(value))

\* whether the written file has an advance with the attribute
C25_Has(text, key) ==
    /\ LastElement(fromstring(text), "advance") # <<>>
    /\ AttribGet(LastElement(fromstring(text), "advance")[1], key, None) # None

\* what the written advance has to be when the file that was read asks for
\* the width and the height or for neither
C25_Emitted(i, width, height) ==
    /\ C25_Has(written[i].text, <<"w","i","d","t","h">>) <=> width
    /\ C25_Has(written[i].text, <<"h","e","i","g","h","t">>) <=> height
    /\ LastElement(fromstring(written[i].text), "advance") # <<>> <=> (width \/ height)

(* C25: the advance is dropped when its width or its height does not parse *)
(* as a real, or when both are zero (a value that is not given is 0);      *)
(* otherwise it is written with those of width and height that are not 0.  *)
C25_Advance ==
    \A i \in 1..Len(written) :
        C26_Wrote(i) =>
            LET w == C25_Given(read[i], <<"w","i","d","t","h">>)
                h == C25_Given(read[i], <<"h","e","i","g","h","t">>)
            IN IF ~IsFloatText(w) \/ ~IsFloatText(h) THEN C25_Emitted(i, FALSE, FALSE)
               ELSE C25_Emitted(i, C25_NonZero(w), C25_NonZero(h))

\* a call that read an advance of which one value parses and is not zero and
\* the other does not parse, and wrote the file
C25_Witness ==
    \E i \in 1..Len(written) :
        /\ C26_Wrote(i)
        /\ C25_NonZero(C25_Given(read[i], <<"w","i","d","t","h">>))
        /\ ~IsFloatText(C25_Given(read[i], <<"h","e","i","g","h","t">>))
        /\ LastElement(fromstring(written[i].text), "advance") = <<>>

\* C25 as stated: the advance is dropped only when neither value parses or
\* both are zero, and a value that parses is written next to one that does not
C25_EitherParses ==
    \A i \in 1..Len(written) :
        C26_Wrote(i) =>
            C25_Emitted(i, C25_NonZero(C25_Given(read[i], <<"w","i","d","t","h">>)),
                           C25_NonZero(C25_Given(read[i], <<"h","e","i","g","h","t">>)))

---------------------------------------------------------------------------
(* _normalizeDictGuideline in its two contexts: the attributes of a glif   *)
(* guideline, which are texts, and the guidelines of fontinfo.plist, whose *)
(* values are the objects of a property list.                              *)

PlistNone == [type |-> "None", text |-> <<>>]

\* the truth value of an object of a property list: None, the number zero
\* and the empty string are false
Truthy(value) ==
    IF value.type = "None" THEN FALSE
    ELSE IF value.type \in {"integer", "real"} THEN ~FloatIsZero(float(value.text))
    ELSE value.text # <<>>

\* float(value) raises ValueError for a string that is no number
FloatRaises(value) == value.type = "string" /\ ~IsFloatText(value.text)

\* _normalizeDictGuideline on a dict of fontinfo.plist that holds at most x,
\* y and angle: <<>> for None, <<normalized>> for the dict
normalizeDictGuidelineObject(guideline) ==
    LET x == guideline.x
        y == guideline.y
        angle == guideline.angle
        converted(v) == IF Truthy(v) THEN PlistReal(v.text) ELSE v
    IN IF ~Truthy(x) /\ ~Truthy(y) THEN <<>>
       ELSE IF (~Truthy(x) \/ ~Truthy(y)) /\ Truthy(angle) THEN <<>>
       ELSE IF (Truthy(x) /\ Truthy(y)) /\ ~Truthy(angle) THEN <<>>
       ELSE IF \E v \in {x, y, angle} : Truthy(v) /\ FloatRaises(v) THEN <<>>
       ELSE << [k \in { n \in {"x", "y", "angle"} : guideline[n].type # "None" } |->
                   converted(guideline[k])] >>

\* _normalizeFontInfoGuidelines: the guidelines that are left
normalizeFontInfoGuidelines(guidelines) ==
    Concat([i \in 1..Len(guidelines) |-> normalizeDictGuidelineObject(guidelines[i])])

\* the explored values of x, y and angle
GuidelineTexts == { None, <<"0">>, <<"1","0">>, <<"-","2",".","5">>, <<"a">> }
GuidelineObjects ==
    { PlistNone, PlistInteger(<<"0">>), PlistInteger(<<"1","0">>), PlistReal(<<"-","2",".","5">>),
      PlistString(<<"a">>) }

GuidelineElement(x, y, angle) ==
    [tag |-> "guideline",
     attrib |-> [name \in { n \in {<<"x">>, <<"y">>, <<"a","n","g","l","e">>} :
                             (IF n = <<"x">> THEN x ELSE IF n = <<"y">> THEN y ELSE angle) # None } |->
                    IF name = <<"x">> THEN x ELSE IF name = <<"y">> THEN y ELSE angle],
     text |-> None,
     children |-> <<>>]

GuidelineInit ==
    /\ call = NoCall /\ ret = Pending
    /\ RenameIdle
    /\ GlifIdle
    /\ ColorIdle
    /\ UfoIdle
    /\ WriterIdle
    /\ \/ \E x \in GuidelineTexts, y \in GuidelineTexts, angle \in GuidelineTexts :
             operand = [context |-> "glif", x |-> x, y |-> y, angle |-> angle]
       \/ \E x \in GuidelineObjects, y \in GuidelineObjects, angle \in GuidelineObjects :
             operand = [context |-> "fontinfo", x |-> x, y |-> y, angle |-> angle]
    /\ returned = NotCalled

Kept == <<"kept">>
Dropped == <<"dropped">>

\* one call of _normalizeGlifGuideline on a guideline element
NormalizeGlifGuideline ==
    /\ returned = NotCalled
    /\ operand.context = "glif"
    /\ returned' =
          IF getText(normalizeGlifGuideline(
                         GuidelineElement(operand.x, operand.y, operand.angle), NewWriter))
             = getText(NewWriter)
          THEN Dropped ELSE Kept
    /\ UNCHANGED <<operand, nameVars, renameVars, glifVars, colorVars, ufoVars, writerVars>>

\* one call of _normalizeFontInfoGuidelines on a list of one guideline
NormalizeFontInfoGuidelines ==
    /\ returned = NotCalled
    /\ operand.context = "fontinfo"
    /\ returned' =
          IF normalizeFontInfoGuidelines(
                 <<[x |-> operand.x, y |-> operand.y, angle |-> operand.angle]>>) = <<>>
          THEN Dropped ELSE Kept
    /\ UNCHANGED <<operand, nameVars, renameVars, glifVars, colorVars, ufoVars, writerVars>>

GuidelineNext == NormalizeGlifGuideline \/ NormalizeFontInfoGuidelines

GuidelineSpec == GuidelineInit /\ [][GuidelineNext]_vars

---------------------------------------------------------------------------
(* The claim about the guidelines, checked under GuidelineSpec.            *)

\* whether a field of the guideline is given, and whether it is a number
C27_Given(v) == IF operand.context = "glif" THEN v # None ELSE v.type # "None"
C27_Parses(v) ==
    IF operand.context = "glif" THEN IsFloatText(v)
    ELSE v.type \in {"integer", "real"} \/ IsFloatText(v.text)

C27_Unparsable == \E v \in {operand.x, operand.y, operand.angle} : C27_Given(v) /\ ~C27_Parses(v)

(* C27: in both contexts a guideline whose x, y and angle are all given    *)
(* and are numbers is kept, whatever the numbers; it is dropped when angle *)
(* is given and x or y is not, when x and y are given and angle is not,    *)
(* when neither x nor y is given, and when a given field is no number.     *)
C27_CoPresence ==
    returned # NotCalled =>
        /\ (C27_Given(operand.x) /\ C27_Given(operand.y) /\ C27_Given(operand.angle)
               /\ ~C27_Unparsable) => returned = Kept
        /\ (C27_Given(operand.angle) /\ ~(C27_Given(operand.x) /\ C27_Given(operand.y)))
               => returned = Dropped
        /\ (C27_Given(operand.x) /\ C27_Given(operand.y) /\ ~C27_Given(operand.angle))
               => returned = Dropped
        /\ (~C27_Given(operand.x) /\ ~C27_Given(operand.y)) => returned = Dropped
        /\ C27_Unparsable => returned = Dropped

---------------------------------------------------------------------------
(* XMLWriter.propertyListObject and _convertPlistElementToObject on the    *)
(* objects of a property list: a boolean, an integer, a string, a list of  *)
(* objects or a dict of objects under string keys.                         *)

PlistObject(type, text, items) == [type |-> type, text |-> text, items |-> items]

NoObject == PlistObject("None", <<>>, <<>>)
TrueObject == PlistObject("true", <<>>, <<>>)
FalseObject == PlistObject("false", <<>>, <<>>)
IntegerObject(digits) == PlistObject("integer", digits, <<>>)
StringObject(text) == PlistObject("string", text, <<>>)
ArrayObject(items) == PlistObject("array", <<>>, items)
DictObject(items) == PlistObject("dict", <<>>, items)

RECURSIVE propertyListObject(_, _)
RECURSIVE plistArrayItems(_, _, _)
RECURSIVE plistDictItems(_, _, _, _)

\* the loop of _plistArray
plistArrayItems(writer, data, i) ==
    IF i > Len(data) THEN writer
    ELSE plistArrayItems(propertyListObject(writer, data[i]), data, i + 1)

\* the loop of _plistDict over the sorted keys
plistDictItems(writer, data, order, i) ==
    IF i > Len(order) THEN writer
    ELSE plistDictItems(
             propertyListObject(simpleElement(writer, "key", NoAttrs, order[i]),
                                data[order[i]]),
             data, order, i + 1)

propertyListObject(writer, data) ==
    IF data.type = "None" THEN writer
    ELSE IF data.type = "array"
    THEN endElement(plistArrayItems(beginElement(writer, "array", NoAttrs), data.items, 1),
                    "array")
    ELSE IF data.type = "dict"
    THEN endElement(plistDictItems(beginElement(writer, "dict", NoAttrs), data.items,
                                   Sorted(DOMAIN data.items), 1),
                    "dict")
    ELSE IF data.type = "string" THEN simpleElement(writer, "string", NoAttrs, data.text)
    ELSE IF data.type \in {"true", "false"} THEN simpleElement(writer, data.type, NoAttrs, None)
    ELSE simpleElement(writer, "integer", NoAttrs, xmlConvertInt(data.text))

\* int(text) for digits with or without a sign
IntOfText(text) ==
    IF Head(text) = "-" THEN <<"-">> \o StripZeros(Tail(text)) ELSE StripZeros(text)

RECURSIVE convertPlistElement(_)
\* _convertPlistElementToObject on an element of any of these tags
convertPlistElement(element) ==
    LET subs == element.children
        keyBefore(i) == subs[CHOOSE k \in 1..(i - 1) :
                               /\ subs[k].tag = "key"
                               /\ \A j \in (k + 1)..(i - 1) : subs[j].tag # "key"].text
        values == { i \in 1..Len(subs) : subs[i].tag # "key" }
        last(key) == CHOOSE i \in values :
                        /\ keyBefore(i) = key
                        /\ \A j \in values : keyBefore(j) = key => j <= i
    IN IF element.tag = "array"
       THEN ArrayObject([i \in 1..Len(subs) |-> convertPlistElement(subs[i])])
       ELSE IF element.tag = "dict"
       THEN DictObject([key \in { keyBefore(i) : i \in values } |->
                           convertPlistElement(subs[last(key)])])
       ELSE IF element.tag = "string"
       THEN (IF element.text = None THEN NoObject ELSE StringObject(element.text))
       ELSE IF element.tag = "true" THEN TrueObject
       ELSE IF element.tag = "false" THEN FalseObject
       ELSE IF element.tag = "integer" THEN IntegerObject(IntOfText(element.text))
       ELSE NoObject

\* the explored objects
PlistScalars ==
    { TrueObject, FalseObject,
      IntegerObject(<<"0">>), IntegerObject(<<"7">>), IntegerObject(<<"-","3">>),
      StringObject(<<"a">>), StringObject(<<>>), StringObject(<<"a","&","b">>), StringObject(<<"a","<","b">>),
      StringObject(<<"&","a","m","p",";">>), StringObject(<<"a",">","b">>) }

PlistKeys == { <<"k">>, <<"z">> }

PlistFlat ==
    PlistScalars
    \cup { ArrayObject(<<>>), DictObject(NoAttrs) }
    \cup { ArrayObject(<<s>>) : s \in PlistScalars }
    \cup { ArrayObject(<<s, FalseObject>>) : s \in PlistScalars }
    \cup { DictObject([k \in {key} |-> s]) : key \in PlistKeys, s \in PlistScalars }
    \cup { DictObject([k \in PlistKeys |-> s]) : s \in PlistScalars }
    \cup { DictObject([k \in {<<"a","&","b">>} |-> StringObject(<<"v">>)]) }

PlistNested ==
    { ArrayObject(<<ArrayObject(<<s>>), DictObject([k \in {<<"k">>} |-> s])>>) : s \in PlistScalars }
    \cup { DictObject([k \in {<<"k">>} |-> ArrayObject(<<s, DictObject(NoAttrs)>>)]) : s \in PlistScalars }

PlistInit ==
    /\ call = NoCall /\ ret = Pending
    /\ RenameIdle
    /\ GlifIdle
    /\ ColorIdle
    /\ UfoIdle
    /\ WriterIdle
    /\ operand \in PlistFlat \cup PlistNested
    /\ returned = <<>>

\* the object is written as the text of a property list
PropertyListObject ==
    /\ Len(returned) = 0
    /\ returned' = <<getText(propertyListObject(NewWriter, operand))>>
    /\ UNCHANGED <<operand, nameVars, renameVars, glifVars, colorVars, ufoVars, writerVars>>

Parsed(object) == [raised |-> "no", object |-> object]
NotParsed == [raised |-> "ParseError", object |-> NoObject]

\* the text is parsed and its root element converted to an object
ConvertPlistElementToObject ==
    /\ Len(returned) = 1
    /\ returned' = Append(returned,
                      IF WellFormed(returned[1])
                      THEN Parsed(convertPlistElement(fromstring(returned[1])))
                      ELSE NotParsed)
    /\ UNCHANGED <<operand, nameVars, renameVars, glifVars, colorVars, ufoVars, writerVars>>

PlistNext == PropertyListObject \/ ConvertPlistElementToObject

PlistSpec == PlistInit /\ [][PlistNext]_vars

---------------------------------------------------------------------------
(* The claim about the property list, checked under PlistSpec.             *)

(* C21: an object of a property list that is written with                 *)
(* propertyListObject and parsed back with _convertPlistElementToObject    *)
(* comes back equal: the text parses and the object it gives is the one    *)
(* that was written.                                                       *)
C21_RoundTrip ==
    Len(returned) = 2 => returned[2] = Parsed(operand)

---------------------------------------------------------------------------
(* The claim about the state normalizeGlyphNames leaves, checked under     *)
(* RenameSpec.                                                             *)

\* normalizeGlyphNames has returned from a layer directory that held the
\* files of the glyphs of contents.plist and no other
C28_Returned == kind = "glyphs" /\ pc = "done" /\ DOMAIN fs0 = OldNames

(* C28: when every file of the layer directory other than contents.plist   *)
(* is the file of one glyph of contents.plist, then after                  *)
(* normalizeGlyphNames contents.plist is on disk and holds the returned    *)
(* mapping, the files of the directory are the file names of the mapping,  *)
(* and no two glyphs share a file.                                         *)
C28_ContentsMatchesDirectory ==
    C28_Returned =>
        /\ ContentsPlist \notin lost
        /\ contents = newMapping
        /\ DOMAIN fs = { newMapping[i][2] : i \in 1..Len(newMapping) }
        /\ \A i, j \in 1..Len(newMapping) : i # j => newMapping[i][2] # newMapping[j][2]

---------------------------------------------------------------------------
(* The XMLWriter as an object: its methods called in any order, and the    *)
(* sequences of calls that normalizeGLIF and normalizePropertyList make.   *)
(* A failed assert raises AssertionError and leaves the writer as it was.  *)

MaxWriterLines == 4

WriterTags == {"a", "b"}

plistDocType == XmlLine(0, "declaration", "DOCTYPE", <<>>, None)

\* the writer of normalizePropertyList when getText is called on it
PlistWriter(data) ==
    endElement(
        propertyListObject(
            beginElement([NewWriter EXCEPT !.lines = Append(@, plistDocType)], "plist",
                         Put(NoAttrs, <<"v","e","r","s","i","o","n">>, StrValue(<<"1",".","0">>))),
            data),
        "plist")

normalizePropertyList(data) == getText(PlistWriter(data))

\* the glyph files on which normalizeGLIF does not raise
WrittenGlyphs ==
    { file \in CombinedGlyphs \cup VariedGlyphs : normalizeGLIF(file.lines).raised = "no" }

WriterInit ==
    /\ call = NoCall /\ ret = Pending
    /\ RenameIdle
    /\ GlifIdle
    /\ ColorIdle
    /\ UfoIdle
    /\ operand = <<>>
    /\ returned = <<>>
    /\ xmlWriter = NewWriter
    /\ asserted = FALSE

Writing == ~asserted /\ Len(returned) = 0

BeginElement ==
    /\ Writing
    /\ Len(xmlWriter.lines) < MaxWriterLines
    /\ \E tag \in WriterTags : xmlWriter' = beginElement(xmlWriter, tag, NoAttrs)
    /\ UNCHANGED <<asserted, nameVars, renameVars, glifVars, colorVars, ufoVars, pureVars>>

SimpleElement ==
    /\ Writing
    /\ Len(xmlWriter.lines) < MaxWriterLines
    /\ \E tag \in WriterTags : xmlWriter' = simpleElement(xmlWriter, tag, NoAttrs, None)
    /\ UNCHANGED <<asserted, nameVars, renameVars, glifVars, colorVars, ufoVars, pureVars>>

\* "assert self._stack" and "assert self._stack[-1] == tag", then the pop
EndElement ==
    /\ Writing
    /\ Len(xmlWriter.lines) < MaxWriterLines
    /\ \E tag \in WriterTags :
          IF xmlWriter.stack = <<>> \/ xmlWriter.stack[Len(xmlWriter.stack)] # tag
          THEN asserted' = TRUE /\ UNCHANGED xmlWriter
          ELSE xmlWriter' = endElement(xmlWriter, tag) /\ UNCHANGED asserted
    /\ UNCHANGED <<nameVars, renameVars, glifVars, colorVars, ufoVars, pureVars>>

\* "assert not self._stack", then the text
GetText ==
    /\ Writing
    /\ IF xmlWriter.stack # <<>>
       THEN asserted' = TRUE /\ UNCHANGED returned
       ELSE returned' = getText(xmlWriter) /\ UNCHANGED asserted
    /\ UNCHANGED <<operand, xmlWriter, nameVars, renameVars, glifVars, colorVars, ufoVars>>

\* normalizeGLIF up to its call of getText, on a new writer
WriteGLIF ==
    /\ Writing
    /\ xmlWriter = NewWriter
    /\ \E file \in WrittenGlyphs : xmlWriter' = GlifWriter(fromstring(file.lines))
    /\ UNCHANGED <<asserted, nameVars, renameVars, glifVars, colorVars, ufoVars, pureVars>>

\* normalizePropertyList up to its call of getText, on a new writer
WritePropertyList ==
    /\ Writing
    /\ xmlWriter = NewWriter
    /\ \E data \in PlistFlat \cup PlistNested : xmlWriter' = PlistWriter(data)
    /\ UNCHANGED <<asserted, nameVars, renameVars, glifVars, colorVars, ufoVars, pureVars>>

WriterNext ==
    BeginElement \/ SimpleElement \/ EndElement \/ GetText \/ WriteGLIF \/ WritePropertyList

WriterSpec == WriterInit /\ [][WriterNext]_vars

---------------------------------------------------------------------------
(* The claim about the writer, checked under WriterSpec.                   *)

RECURSIVE C29_Open(_, _, _)
\* the tags left open by the lines from the i-th on, after those in open;
\* <<"unmatched">> when a line closes a tag that is not the last one opened
C29_Open(lines, i, open) ==
    IF i > Len(lines) THEN open
    ELSE IF lines[i].kind = "begin" THEN C29_Open(lines, i + 1, Append(open, lines[i].tag))
    ELSE IF lines[i].kind = "end"
    THEN (IF open # <<>> /\ open[Len(open)] = lines[i].tag
          THEN C29_Open(lines, i + 1, SubSeq(open, 1, Len(open) - 1))
          ELSE <<"unmatched">>)
    ELSE C29_Open(lines, i + 1, open)

\* the indent level is the depth of the stack, and the stack holds the tags
\* that the lines written so far opened and did not close
C29_Balanced ==
    /\ xmlWriter.indentLevel = Len(xmlWriter.stack)
    /\ C29_Open(xmlWriter.lines, 1, <<>>) = xmlWriter.stack

\* a step that pops the stack closes the tag that was on top of it, and a
\* failed assert leaves the writer as it was
C29_EndStep ==
    /\ Len(xmlWriter'.stack) < Len(xmlWriter.stack) =>
           /\ xmlWriter'.stack = SubSeq(xmlWriter.stack, 1, Len(xmlWriter.stack) - 1)
           /\ xmlWriter'.lines[Len(xmlWriter'.lines)].kind = "end"
           /\ xmlWriter'.lines[Len(xmlWriter'.lines)].tag = xmlWriter.stack[Len(xmlWriter.stack)]
    /\ asserted' # asserted => xmlWriter' = xmlWriter /\ returned' = returned

(* C29: in every state of the writer the indent level is the number of     *)
(* open tags on the stack; endElement pops the stack only for the tag on   *)
(* its top; and when getText has returned the text, on the paths of        *)
(* normalizeGLIF and normalizePropertyList included, every element that    *)
(* was begun has been ended and the stack is empty.                        *)
C29_StackDiscipline ==
    /\ [](C29_Balanced /\ (Len(returned) > 0 => xmlWriter.stack = <<>>))
    /\ [][C29_EndStep]_vars

\* getText has returned the text of a glyph file with nested elements
C29_Witness ==
    /\ Len(returned) > 0
    /\ ~asserted
    /\ \E i \in 1..Len(xmlWriter.lines) :
          xmlWriter.lines[i].kind = "begin" /\ xmlWriter.lines[i].level = 2
    /\ xmlWriter.lines[2].tag = "glyph"

===========================================================================
